---- MODULE Spec2Model ----
(***************************************************************************)
(* A model of dexie-kit-sync: leader election over a broadcast channel     *)
(* (src/src/utils/leader-election.ts), the sync engine's lifecycle and     *)
(* sync cycle (src/src/core/sync-engine.ts), the outbox and change         *)
(* tracker (src/unnamed/part_000), the push pipeline                       *)
(* (src/src/push/push-processor.ts) and the pull pipeline with the change  *)
(* applier and conflict resolver (src/src/pull, src/src/conflict).         *)
(***************************************************************************)
EXTENDS Integers, Sequences, FiniteSets, TLC

(***************************************************************************)
(* Bounds of the model.                                                    *)
(***************************************************************************)
NInst == 2
MaxTime == 3
MaxElections == 1
MaxHeartbeats == 1
NKeys == 1
MaxStamp == 3
MaxOutboxAdds == 3
MaxTasks == 2
MaxStarts == 2
TimeHorizon == 3000

Inst == 1..NInst
NoTime == 0

\* The engine whose sync machinery is modelled; the other instances are peers
\* on the broadcast channel.
Eng == CHOOSE i \in Inst : \A j \in Inst : i <= j

\* The tables of the application's database.
Tables == {"notes", "posts"}
MetaTables == {"outbox", "checkpoints", "deadLetters"}
NoTable == "*"
Keys == 1..NKeys
Cells == Tables \X Keys

\* config.sync.push.batchSize and .concurrency, config.errors.maxRetries.
ConfigBatchSize == 2
ConfigConcurrency == 2
ConfigMaxRetries == 2
DefaultBatchSize == 10
DefaultConcurrency == 3
DefaultMaxRetries == 5
BackoffBase == 1000
BackoffCap == 60000

\* Records of the user's tables: updatedAt (0: missing) and version.
NoVersion == -1
NoRec == [updatedAt |-> -1, version |-> NoVersion]
Rec(s) == [updatedAt |-> s, version |-> NoVersion]

Min(a, b) == IF a < b THEN a ELSE b

VARIABLES
  now,              \* Date.now()
  isLeaderFlag,     \* LeaderElection.isLeaderFlag, per instance
  electionTimeout,  \* LeaderElection.electionTimeout, per instance (NoTime: undefined)
  heartbeatInterval,\* LeaderElection.heartbeatInterval is set, per instance
  settleTimers,     \* pending setTimeout callbacks of electLeader, per instance
  elections,        \* electLeader() calls made so far, per instance
  heartbeats,       \* heartbeat timer firings so far, per instance
  chan,             \* BroadcastChannel: messages in flight, per <<sender, receiver>>
  closed,           \* channel.close() was called, per instance
  observed,         \* history: since its last electLeader() the instance handled an
                    \* election-response of another instance with an earlier timestamp
  isRunning,        \* SyncEngine.isRunning, per instance
  syncInterval,     \* SyncEngine.syncInterval is armed, per instance
  isPausedFlag,     \* SyncEngine.isPausedFlag of Eng
  isSyncingFlag,    \* SyncEngine.isSyncingFlag of Eng
  onlineStatus,     \* SyncContext.onlineStatus of Eng
  startPc,          \* the start() calls of Eng: "idle", "electing", "done", "failed"
  subs,             \* live hook subscriptions of the change tracker, per table
  hooks,            \* ChangeTracker.hooks has an entry, per table
  policy,           \* config.conflicts.policy ("none": no conflicts config)
  routes,           \* Object.keys(config.routes): each has a push and a pull route
  onComplete,       \* the pull routes have an onComplete that saves the checkpoint
  pausedTables,     \* SyncEngine.pausedTables of Eng
  checkpoint,       \* the checkpoints table: revision per table (NoTime: no row)
  local,            \* the user's tables of the local store, per <<table, key>>
  server,           \* the remote service's records, per <<table, key>>
  stamp,            \* the latest write stamp handed out (updatedAt of a write)
  outbox,           \* the outbox table, in id order
  nextId,           \* the outbox table's next auto-increment id
  deadLetters,      \* the deadLetters table, in id order
  nextDlId,         \* the deadLetters table's next auto-increment id
  task,             \* the sync()/push()/pull()/syncTable() calls of Eng in progress
  eventHandlers,    \* per event, the Set of handlers in insertion order
  delivered,        \* what the latest emit() did: handlers invoked, throwers logged, thrown
  resolution,       \* the latest resolve() call: policy, conflict, resolver's value, result
  detection,        \* the latest detectConflict() call: local, remote, result
  backoff           \* the latest calculateBackoff() call: attempt, jitter draw, delay

electVars == <<isLeaderFlag, electionTimeout, heartbeatInterval, settleTimers,
               elections, heartbeats, chan, closed, observed>>
eventVars == <<eventHandlers, delivered>>
callVars == <<resolution, detection, backoff>>
lifeVars == <<isRunning, syncInterval, isPausedFlag, isSyncingFlag, onlineStatus,
              startPc, subs, hooks, policy, routes, onComplete, eventVars, callVars,
              pausedTables, checkpoint>>
storeVars == <<local, server, stamp, outbox, nextId, deadLetters, nextDlId>>
engineVars == <<lifeVars, storeVars, task>>

vars == <<now, electVars, engineVars>>

Pairs == {p \in Inst \X Inst : p[1] # p[2]}

Msg(type, tabId, timestamp) ==
  [type |-> type, tabId |-> tabId, timestamp |-> timestamp]

\* channel.postMessage(m) by instance s on channel contents c: every other
\* instance's queue from s gets m; the poster does not receive its own message.
PostMessage(c, s, m) ==
  [p \in Pairs |-> IF p[1] = s THEN Append(c[p], m) ELSE c[p]]

----------------------------------------------------------------------------
(***************************************************************************)
(* LeaderElection, with the leadership callback the engine registers       *)
(***************************************************************************)

\* config.sync.interval is set and positive.
IntervalConfigured == TRUE

\* startSyncInterval(): the timer is armed iff an interval is configured.
StartSyncInterval == IntervalConfigured

\* The engine's onLeadershipChange callback: the state of the periodic timer
\* of instance i after the callback ran with isLeader, the engine running or not.
LeadershipCallback(isLeader, running) ==
  IF isLeader /\ running THEN StartSyncInterval ELSE FALSE

\* The test of the settle-window callback, "if (this.electionTimeout)".
StillCandidate(i) == electionTimeout[i] # NoTime

\* electLeader(): stamp the election, broadcast it, arm the settle timer.
ElectLeaderEffect(i) ==
  /\ elections' = [elections EXCEPT ![i] = @ + 1]
  /\ electionTimeout' = [electionTimeout EXCEPT ![i] = now]
  /\ chan' = PostMessage(chan, i, Msg("election", i, now))
  /\ settleTimers' = [settleTimers EXCEPT ![i] = @ + 1]
  /\ observed' = [observed EXCEPT ![i] = FALSE]
  /\ UNCHANGED <<isLeaderFlag, heartbeatInterval, heartbeats, closed>>

\* The setTimeout callback of electLeader, up to the leadership callback. On
\* a closed channel postMessage throws: the flag is set, and the callback ends
\* there, before the heartbeat, the leadership callback and resolve().
SettleEffect(i) ==
  /\ settleTimers[i] > 0
  /\ settleTimers' = [settleTimers EXCEPT ![i] = @ - 1]
  /\ IF StillCandidate(i)
       THEN /\ isLeaderFlag' = [isLeaderFlag EXCEPT ![i] = TRUE]
            /\ IF closed[i]
                 THEN UNCHANGED <<chan, heartbeatInterval>>
                 ELSE /\ chan' = PostMessage(chan, i, Msg("leader", i, NoTime))
                      /\ heartbeatInterval' = [heartbeatInterval EXCEPT ![i] = TRUE]
       ELSE UNCHANGED <<isLeaderFlag, chan, heartbeatInterval>>
  /\ UNCHANGED <<electionTimeout, elections, heartbeats, closed, observed>>

\* A handler that steps down on a leader announcement only.
StepsDownOnLeaderOnly(r, m) == m.type = "leader" /\ m.tabId # r

\* Whether message m makes receiver r clear its leader flag.
StepsDown(r, m) ==
  CASE m.type = "election-response" ->
         m.timestamp < electionTimeout[r] /\ m.tabId # r
    [] m.type = "leader" -> m.tabId # r
    [] m.type = "heartbeat" -> m.tabId # r
    [] OTHER -> FALSE

\* An electLeader() call of an instance whose engine is not running.
ElectLeader(i) ==
  /\ elections[i] < MaxElections
  /\ ElectLeaderEffect(i)
  /\ UNCHANGED <<now, engineVars>>

\* The settle window of instance i elapses.
SettleTimeout(i) ==
  /\ SettleEffect(i)
  /\ syncInterval' =
       IF StillCandidate(i) /\ ~closed[i]
         THEN [syncInterval EXCEPT ![i] = LeadershipCallback(TRUE, isRunning[i])]
         ELSE syncInterval
  /\ UNCHANGED <<now, isRunning, isPausedFlag, isSyncingFlag, onlineStatus,
                 startPc, subs, hooks, policy, routes, onComplete, eventVars, callVars, pausedTables, checkpoint, storeVars, task>>

\* The setInterval callback of startHeartbeat.
HeartbeatFires(i) ==
  /\ heartbeatInterval[i]
  /\ heartbeats[i] < MaxHeartbeats
  /\ heartbeats' = [heartbeats EXCEPT ![i] = @ + 1]
  /\ chan' = IF isLeaderFlag[i] /\ ~closed[i]
               THEN PostMessage(chan, i, Msg("heartbeat", i, NoTime))
               ELSE chan
  /\ UNCHANGED <<now, isLeaderFlag, electionTimeout, heartbeatInterval,
                 settleTimers, elections, closed, observed, engineVars>>

\* channel.onmessage of instance r for the oldest message from s; a closed
\* channel receives nothing, the message is dropped.
OnMessage(s, r) ==
  /\ chan[<<s, r>>] # <<>>
  /\ LET m == Head(chan[<<s, r>>])
         rest == [chan EXCEPT ![<<s, r>>] = Tail(@)]
     IN /\ chan' = IF m.type = "election" /\ ~closed[r]
                     THEN PostMessage(rest, r, Msg("election-response", r, now))
                     ELSE rest
        /\ isLeaderFlag' = IF StepsDown(r, m) /\ ~closed[r]
                             THEN [isLeaderFlag EXCEPT ![r] = FALSE]
                             ELSE isLeaderFlag
        /\ observed' = IF m.type = "election-response" /\ StepsDown(r, m) /\ ~closed[r]
                          THEN [observed EXCEPT ![r] = TRUE]
                          ELSE observed
        /\ syncInterval' =
             IF m.type = "leader" /\ m.tabId # r /\ ~closed[r]
               THEN [syncInterval EXCEPT ![r] = LeadershipCallback(FALSE, isRunning[r])]
               ELSE syncInterval
  /\ UNCHANGED <<now, electionTimeout, heartbeatInterval, settleTimers,
                 elections, heartbeats, closed, isRunning, isPausedFlag, isSyncingFlag,
                 onlineStatus, startPc, subs, hooks, policy, routes, onComplete, eventVars, callVars, pausedTables, checkpoint, storeVars, task>>

\* Time passes.
Tick ==
  /\ now < MaxTime
  /\ now' = now + 1
  /\ UNCHANGED <<electVars, engineVars>>

----------------------------------------------------------------------------
(***************************************************************************)
(* OutboxManager and ChangeTracker                                         *)
(***************************************************************************)

\* The row OutboxManager.add() stores under auto-increment id.
OutboxItem(id, table, operation, key, obj) ==
  [id |-> id, table |-> table, operation |-> operation, key |-> key, obj |-> obj,
   attempt |-> 0, createdAt |-> now, lastError |-> "", nextRetryAt |-> NoTime]

\* An add() that keeps a used-up attempt count.
OutboxAddRetried(ob, id, table, operation, key, obj) ==
  Append(ob, [OutboxItem(id, table, operation, key, obj) EXCEPT !.attempt = 1])

\* OutboxManager.add(table, operation, key, obj) on outbox contents ob.
OutboxAdd(ob, id, table, operation, key, obj) ==
  Append(ob, OutboxItem(id, table, operation, key, obj))

\* OutboxManager.remove(id).
OutboxRemove(ob, id) == SelectSeq(ob, LAMBDA it : it.id # id)

\* OutboxManager.getAll(table).
GetAll(ob, table) == SelectSeq(ob, LAMBDA it : it.table = table)

\* The filter of OutboxManager.getPending().
IsPending(it) == it.nextRetryAt = NoTime \/ it.nextRetryAt <= now

\* OutboxManager.getPending().
GetPending(ob) == SelectSeq(ob, IsPending)

\* OutboxManager.updateRetry(id, error, nextRetryAt).
UpdateRetry(ob, id, error, nextRetryAt) ==
  [i \in 1..Len(ob) |->
     IF ob[i].id = id
       THEN [ob[i] EXCEPT !.attempt = @ + 1, !.lastError = error,
                          !.nextRetryAt = nextRetryAt]
       ELSE ob[i]]

\* OutboxManager.getDepth().
GetDepth(ob) == Len(ob)

\* A tracker that replaces the key's pending entries by the new one.
TrackCoalesced(ob, id, table, operation, key, obj) ==
  OutboxAdd(SelectSeq(ob, LAMBDA it : ~(it.table = table /\ it.key = key)),
            id, table, operation, key, obj)

\* ChangeTracker.trackChange: the outbox entries one subscription adds for a
\* mutation (none for the sync metadata tables).
TrackChange(ob, id, table, operation, key, obj) ==
  IF table \in MetaTables THEN ob ELSE OutboxAdd(ob, id, table, operation, key, obj)

\* The hooks of table fire for a mutation: each of the n live subscriptions
\* calls trackChange.
RECURSIVE HooksFire(_, _, _, _, _, _, _)
HooksFire(ob, id, n, table, operation, key, obj) ==
  IF n = 0 THEN ob
  ELSE HooksFire(TrackChange(ob, id, table, operation, key, obj), id + 1, n - 1,
                 table, operation, key, obj)

Range(seq) == {seq[i] : i \in 1..Len(seq)}

\* SyncEngine.getSyncedTables(): the keys of config.routes (no config.tables,
\* no config.excludeTables).
GetSyncedTables == Range(routes)

\* ChangeTracker.startTracking(tables): one more subscription per table, and
\* the hooks map holds the latest one.
StartTracking(sb, tables) ==
  [t \in Tables |-> IF t \in tables THEN sb[t] + 1 ELSE sb[t]]

\* ChangeTracker.stopTracking(): the subscriptions the hooks map holds are
\* unsubscribed and the map is cleared.
StopTracking(sb, hk) == [t \in Tables |-> IF hk[t] THEN sb[t] - 1 ELSE sb[t]]

\* The operation a Dexie put() of a key is observed as by the hooks.
PutOperation(loc, cell) == IF loc[cell] = NoRec THEN "create" ELSE "update"

----------------------------------------------------------------------------
(***************************************************************************)
(* Errors and backoff                                                      *)
(***************************************************************************)

\* HttpClient.createErrorFromResponse(status), and the network error of
\* executeRequest (status 0: fetch threw).
ErrorFromStatus(status) ==
  IF status = 0 THEN
    [type |-> "network", retryable |-> TRUE, message |-> "Network request failed", retryAfter |-> 0]
  ELSE IF status >= 500 THEN
    [type |-> "server", retryable |-> TRUE, message |-> "Server error", retryAfter |-> 0]
  ELSE IF status = 401 \/ status = 403 THEN
    [type |-> "auth", retryable |-> FALSE, message |-> "Authentication failed", retryAfter |-> 0]
  ELSE IF status = 409 THEN
    [type |-> "conflict", retryable |-> FALSE, message |-> "Conflict detected", retryAfter |-> 0]
  ELSE IF status = 429 THEN
    [type |-> "quota", retryable |-> TRUE, message |-> "Rate limit exceeded", retryAfter |-> 60000]
  ELSE IF status = 400 \/ status = 422 THEN
    [type |-> "validation", retryable |-> FALSE, message |-> "Validation failed", retryAfter |-> 0]
  ELSE IF status = 404 THEN
    [type |-> "client", retryable |-> FALSE, message |-> "Resource not found", retryAfter |-> 0]
  ELSE
    [type |-> "client", retryable |-> FALSE, message |-> "Client error", retryAfter |-> 0]

RECURSIVE Pow2(_)
Pow2(n) == IF n = 0 THEN 1 ELSE 2 * Pow2(n - 1)

\* A backoff without the cap.
BackoffUncapped(attempt, r) == Pow2(attempt) * ((BackoffBase * (4500 + r)) \div 5000)

\* calculateBackoff(attempt) with Math.random() = r / 1000:
\* floor(delay + delay * 0.2 * (random - 0.5)), delay = min(1000 * 2^attempt, 60000).
CalculateBackoff(attempt, r) ==
  LET delay == Min(BackoffBase * Pow2(attempt), BackoffCap)
  IN (delay * (4500 + r)) \div 5000

\* PushProcessor.getMaxRetries.
GetMaxRetries == IF ConfigMaxRetries = 0 THEN DefaultMaxRetries ELSE ConfigMaxRetries

\* PushProcessor.getRetryDelay(attempt): no config.errors.retryDelay is set.
GetRetryDelay(attempt, r) == CalculateBackoff(attempt, r)

\* A dead-letter test that looks at the attempt count only.
DeadLetterWhenExhausted(item, error) == item.attempt >= GetMaxRetries

\* A dead-letter test that gives up one attempt early.
DeadLetterOneEarly(item, error) ==
  item.attempt + 1 >= GetMaxRetries \/ ~error.retryable

\* The dead-letter test of PushProcessor.pushItem.
GoesToDeadLetters(item, error) ==
  item.attempt >= GetMaxRetries \/ ~error.retryable

\* The row PushProcessor.moveToDeadLetters stores under auto-increment id.
DeadLetterItem(id, item, error) ==
  [id |-> id, table |-> item.table, operation |-> item.operation, key |-> item.key,
   obj |-> item.obj, error |-> error.message, errorType |-> error.type,
   failedAt |-> now, originalAttempts |-> item.attempt]

----------------------------------------------------------------------------
(***************************************************************************)
(* ConflictResolver and strategies                                         *)
(***************************************************************************)
\* new Date(x).getTime() of an integral timestamp x within the Date range
\* (every timestamp of the model is one): x itself.
GetTime(x) == x

\* A record field that is not set.
Undefined == -2

\* The truthiness of a timestamp: undefined and the number 0 are falsy.
Truthy(x) == x # Undefined /\ x # 0

\* ConflictResolver.detectConflict(local, remote).
DetectConflict(loc, remote) ==
  IF loc = NoRec THEN FALSE
  ELSE IF loc.version # NoVersion /\ remote.version # NoVersion
    THEN loc.version # remote.version
  ELSE IF Truthy(loc.updatedAt) /\ Truthy(remote.updatedAt)
    THEN GetTime(loc.updatedAt) # GetTime(remote.updatedAt)
  ELSE TRUE

\* The ConflictInfo ChangeApplier.resolveConflict builds (0: undefined timestamp).
ConflictInfo(table, key, loc, remote) ==
  [table |-> table, key |-> key, local |-> loc, remote |-> remote,
   localTimestamp |-> IF loc.updatedAt # 0 THEN GetTime(loc.updatedAt) ELSE 0,
   remoteTimestamp |-> IF remote.updatedAt # 0 THEN GetTime(remote.updatedAt) ELSE 0]

\* "x || 0" of a timestamp (0: undefined).
OrZero(x) == x

ServerWins(conflict) == conflict.remote
ClientWins(conflict) == conflict.local

\* A last-write-wins that keeps the local version.
LocalAlways(conflict) == conflict.local

LastWriteWins(conflict) ==
  LET localTime == OrZero(conflict.localTimestamp)
      remoteTime == OrZero(conflict.remoteTimestamp)
  IN IF localTime > remoteTime THEN conflict.local ELSE conflict.remote

\* getStrategy(policy) applied to the conflict.
Strategy(pol, conflict) ==
  CASE pol = "server-wins" -> ServerWins(conflict)
    [] pol = "client-wins" -> ClientWins(conflict)
    [] pol = "lww" -> LastWriteWins(conflict)
    [] OTHER -> ServerWins(conflict)

\* A resolve() that runs the built-in strategy under every policy.
ResolveBuiltIn(pol, conflict, custom) == Strategy(pol, conflict)

\* ConflictResolver.resolve(conflict); custom is what config.onConflict returns.
Resolve(pol, conflict, custom) ==
  IF pol = "custom" THEN custom ELSE Strategy(pol, conflict)

\* ChangeApplier.applyChanges, one fetched record: whether an outbox entry
\* of the table has the record's key.
HasPendingChange(ob, table, key) ==
  \E i \in 1..Len(GetAll(ob, table)) : GetAll(ob, table)[i].key = key

\* Whether applyChanges counts a conflict for the record.
ConflictDetected(ob, loc, pol, table, key, remote) ==
  /\ HasPendingChange(ob, table, key)
  /\ loc[<<table, key>>] # NoRec
  /\ pol # "none"
  /\ DetectConflict(loc[<<table, key>>], remote)

\* The value applyChanges puts for the record.
AppliedValue(ob, loc, pol, table, key, remote, custom) ==
  IF ConflictDetected(ob, loc, pol, table, key, remote)
    THEN Resolve(pol, ConflictInfo(table, key, loc[<<table, key>>], remote), custom)
    ELSE remote

----------------------------------------------------------------------------
(***************************************************************************)
(* PushProcessor, PullProcessor and the sync cycle of the engine Eng       *)
(***************************************************************************)
TaskIds == 1..MaxTasks
StartIds == 1..MaxStarts

\* HTTP outcomes of a push request the model draws from (0: network failure),
\* and the Math.random() draws of the backoff jitter, in thousandths.
PushStatuses == {200, 500, 400}
JitterDraws == {0, 999}

BatchSize == IF ConfigBatchSize = 0 THEN DefaultBatchSize ELSE ConfigBatchSize
Concurrency == IF ConfigConcurrency = 0 THEN DefaultConcurrency ELSE ConfigConcurrency

NoAccepted == [c \in Cells |-> 0]

\* A call slot: no call in progress.
IdleTask ==
  [kind |-> "none", pc |-> "idle", err |-> "", tbl |-> NoTable,
   items |-> <<>>, idx |-> 0, inflight |-> {}, pushed |-> 0, failed |-> 0,
   pushErrors |-> <<>>,
   tables |-> <<>>, ti |-> 0, fetched |-> <<>>, applied |-> 0, conflicts |-> 0,
   applyFailed |-> 0, errors |-> 0, completed |-> 0, events |-> <<>>, accepted |-> NoAccepted]

\* The sync cycles between the guard of sync() and its finally block.
ActiveCycles == {t \in TaskIds : task[t].kind = "sync" /\ task[t].pc \in {"pushing", "fetching", "applying"}}

\* The tables pull() visits: the given one, or every table with a pull route.
PullTables(tbl) == IF tbl = NoTable THEN routes ELSE <<tbl>>

\* pull(tbl) starts: the first table's fetch is dispatched.
StartPull(tk) ==
  [tk EXCEPT !.pc = "fetching", !.tables = PullTables(tk.tbl), !.ti = 1]

\* The call returns its result; the locals of push() and pull() are gone.
Done(tk) ==
  [tk EXCEPT !.pc = "done", !.items = <<>>, !.idx = 0, !.tables = <<>>,
             !.ti = 0, !.fetched = <<>>,
             !.events = IF tk.kind = "sync" THEN Append(@, "sync-complete") ELSE @]

\* A pull loop that returns at the first table whose fetch failed.
NextTableAbort(tk) ==
  IF tk.ti < Len(tk.tables) /\ tk.errors = 0
    THEN [tk EXCEPT !.pc = "fetching", !.ti = @ + 1, !.fetched = <<>>]
    ELSE Done(tk)

\* The pull loop moves on after a table: the next fetch, or pull() returns.
NextTable(tk) ==
  IF tk.ti < Len(tk.tables)
    THEN [tk EXCEPT !.pc = "fetching", !.ti = @ + 1, !.fetched = <<>>]
    ELSE Done(tk)

\* result.success of push() and of pull().
PushSuccess(tk) == tk.failed = 0
PullSuccess(tk) == tk.errors = 0

\* push() has returned: sync() and syncTable() go on to pull().
AfterPush(tk) ==
  IF tk.kind = "push" THEN Done(tk) ELSE StartPull(tk)

\* A push loop that dispatches every remaining item at once.
BurstAll(idx, n) == n - idx

\* The items push() dispatches before its next await, having dispatched idx of
\* n: up to the concurrency limit, within the current batch.
Burst(idx, n) ==
  LET batchEnd == Min(n, ((idx \div BatchSize) + 1) * BatchSize)
  IN Min(Concurrency, batchEnd - idx)

\* A push loop that does not wait for its requests.
AnySettled(inflight) == TRUE

\* Promise.allSettled of the awaited requests has resolved.
AllSettled(inflight) == inflight = {}

\* A push loop that gives up once an item has failed.
PushLoopAbort(tk, inflight) ==
  IF tk.pc = "pushing" /\ AllSettled(inflight)
    THEN IF tk.idx < Len(tk.items) /\ tk.failed = 0
           THEN LET b == Burst(tk.idx, Len(tk.items))
                IN [tk EXCEPT !.idx = @ + b,
                              !.inflight = inflight \cup ((tk.idx + 1)..(tk.idx + b))]
           ELSE AfterPush([tk EXCEPT !.inflight = inflight])
    ELSE [tk EXCEPT !.inflight = inflight]

\* The push loop after a request settled, inflight being the requests left.
PushLoop(tk, inflight) ==
  IF tk.pc = "pushing" /\ AllSettled(inflight)
    THEN IF tk.idx < Len(tk.items)
           THEN LET b == Burst(tk.idx, Len(tk.items))
                IN [tk EXCEPT !.idx = @ + b,
                              !.inflight = inflight \cup ((tk.idx + 1)..(tk.idx + b))]
           ELSE AfterPush([tk EXCEPT !.inflight = inflight])
    ELSE [tk EXCEPT !.inflight = inflight]

\* The items push(tbl) selects.
Selected(ob, tbl) ==
  IF tbl = NoTable THEN GetPending(ob)
  ELSE SelectSeq(GetPending(ob), LAMBDA it : it.table = tbl)

\* push(tbl) starts on outbox ob: the pending items are selected and the first
\* requests dispatched.
StartPush(tk, ob) ==
  LET items == Selected(ob, tk.tbl)
      b == Burst(0, Len(items))
  IN IF Len(items) = 0 THEN AfterPush(tk)
     ELSE [tk EXCEPT !.pc = "pushing", !.items = items, !.idx = b,
                     !.inflight = 1..b]

\* A sync() without its guard on the syncing flag.
NeverSyncing(syncing) == FALSE

\* The guard of sync() on the syncing flag.
AlreadySyncing(syncing) == syncing

\* sync() is called with the engine's flags as given: the rejected call, or
\* the cycle with its push started.
SyncInvoke(online, paused, syncing, ob) ==
  IF ~online THEN [IdleTask EXCEPT !.kind = "sync", !.pc = "rejected",
                                   !.err = "Cannot sync while offline"]
  ELSE IF paused THEN [IdleTask EXCEPT !.kind = "sync", !.pc = "rejected",
                                       !.err = "Sync is paused"]
  ELSE IF AlreadySyncing(syncing)
    THEN [IdleTask EXCEPT !.kind = "sync", !.pc = "rejected",
                          !.err = "Sync already in progress"]
  ELSE StartPush([IdleTask EXCEPT !.kind = "sync", !.events = <<"sync-start">>], ob)

\* A sync() whose guards sit inside its try block: the finally block of a
\* rejected call clears the flag as well.
SyncingAfterFinally(syncing, tk, tk2) ==
  IF tk2.kind # "sync" THEN syncing
  ELSE IF tk2.pc \in {"done", "rejected"} THEN FALSE
  ELSE TRUE

\* The syncing flag after slot t went from tk to tk2: set by an admitted
\* sync(), cleared by its finally block.
SyncingAfter(syncing, tk, tk2) ==
  IF tk2.kind # "sync" \/ tk2.pc = "rejected" THEN syncing
  ELSE IF tk2.pc = "done" THEN FALSE
  ELSE TRUE

\* Slot t is the one the next call takes: the first free one.
Idle(t) ==
  /\ task[t].pc = "idle"
  /\ \A t2 \in TaskIds : t2 < t => task[t2].pc # "idle"

\* A caller that skips its sync().
SkipSync(t, online, paused) ==
  /\ Idle(t)
  /\ UNCHANGED <<task, isSyncingFlag>>

\* A sync() call takes slot t.
CallSync(t, online, paused) ==
  /\ Idle(t)
  /\ task' = [task EXCEPT ![t] = SyncInvoke(online, paused, isSyncingFlag, outbox)]
  /\ isSyncingFlag' = SyncingAfter(isSyncingFlag, task[t], task'[t])

\* start() is called: it returns at once on a running engine, and otherwise
\* runs the election and waits for the settle window; on a closed channel the
\* election's postMessage throws and start() rejects.
StartCall(c) ==
  /\ startPc[c] = "idle"
  /\ \A c2 \in StartIds : c2 < c => startPc[c2] # "idle"
  /\ IF isRunning[Eng]
       THEN /\ startPc' = [startPc EXCEPT ![c] = "done"]
            /\ UNCHANGED electVars
       ELSE IF closed[Eng]
         THEN /\ startPc' = [startPc EXCEPT ![c] = "failed"]
              /\ electionTimeout' = [electionTimeout EXCEPT ![Eng] = now]
              /\ UNCHANGED <<isLeaderFlag, heartbeatInterval, settleTimers,
                             elections, heartbeats, chan, closed, observed>>
         ELSE /\ startPc' = [startPc EXCEPT ![c] = "electing"]
              /\ ElectLeaderEffect(Eng)
  /\ UNCHANGED <<now, isRunning, syncInterval, isPausedFlag, isSyncingFlag,
                 onlineStatus, subs, hooks, policy, routes, onComplete, eventVars, callVars, pausedTables, checkpoint, storeVars, task>>

\* The settle window of start() call c elapses and start() runs on: change
\* tracking, the timer, the running flag and, as leader, the initial sync()
\* in slot t.
StartElected(c, t) ==
  /\ startPc[c] = "electing"
  /\ \A c2 \in StartIds : c2 < c => startPc[c2] # "electing"
  /\ ~closed[Eng]
  /\ SettleEffect(Eng)
  /\ subs' = StartTracking(subs, GetSyncedTables)
  /\ hooks' = [tb \in Tables |-> hooks[tb] \/ tb \in GetSyncedTables]
  /\ isRunning' = [isRunning EXCEPT ![Eng] = TRUE]
  /\ LET called == IF StillCandidate(Eng)
                     THEN LeadershipCallback(TRUE, isRunning[Eng])
                     ELSE syncInterval[Eng]
     IN syncInterval' = [syncInterval EXCEPT ![Eng] =
                           IF isLeaderFlag'[Eng] THEN StartSyncInterval ELSE called]
  /\ IF isLeaderFlag'[Eng]
       THEN /\ CallSync(t, onlineStatus, isPausedFlag)
            /\ startPc' = [startPc EXCEPT ![c] =
                             IF task'[t].pc = "rejected" THEN "failed" ELSE "done"]
       ELSE /\ t = 1
            /\ startPc' = [startPc EXCEPT ![c] = "done"]
            /\ UNCHANGED <<task, isSyncingFlag>>
  /\ UNCHANGED <<now, isPausedFlag, onlineStatus, policy, routes, onComplete, eventVars, callVars, pausedTables, checkpoint, storeVars>>

\* stop(): the running flag, the timer, the tracker's hooks, and
\* leaderElection.destroy(): resign() and channel.close().
Stop ==
  /\ isRunning' = [isRunning EXCEPT ![Eng] = FALSE]
  /\ syncInterval' = [syncInterval EXCEPT ![Eng] = FALSE]
  /\ subs' = StopTracking(subs, hooks)
  /\ hooks' = [tb \in Tables |-> FALSE]
  /\ isLeaderFlag' = [isLeaderFlag EXCEPT ![Eng] = FALSE]
  /\ heartbeatInterval' = [heartbeatInterval EXCEPT ![Eng] = FALSE]
  /\ closed' = [closed EXCEPT ![Eng] = TRUE]
  /\ UNCHANGED <<now, electionTimeout, settleTimers, elections, heartbeats, chan,
                 observed, isPausedFlag, isSyncingFlag, onlineStatus, startPc, policy, routes,
                 onComplete, eventVars, callVars, pausedTables, checkpoint, storeVars, task>>

\* pause().
Pause ==
  /\ ~isPausedFlag
  /\ isPausedFlag' = TRUE
  /\ syncInterval' = [syncInterval EXCEPT ![Eng] = FALSE]
  /\ UNCHANGED <<now, electVars, isRunning, isSyncingFlag, onlineStatus, startPc,
                 subs, hooks, policy, routes, onComplete, eventVars, callVars, pausedTables, checkpoint, storeVars, task>>

\* A resume() that re-arms the timer and syncs whatever the engine's state.
ResumeAlways(running, leader) == TRUE

\* The test of resume() for re-arming the timer and syncing.
ResumeRearms(running, leader) == running /\ leader

\* resume(), its sync() in slot t.
Resume(t) ==
  /\ isPausedFlag
  /\ isPausedFlag' = FALSE
  /\ IF ResumeRearms(isRunning[Eng], isLeaderFlag[Eng])
       THEN /\ syncInterval' = [syncInterval EXCEPT ![Eng] = StartSyncInterval]
            /\ CallSync(t, onlineStatus, FALSE)
       ELSE /\ t = 1
            /\ UNCHANGED <<syncInterval, task, isSyncingFlag>>
  /\ UNCHANGED <<now, electVars, isRunning, onlineStatus, startPc, subs, hooks,
                 policy, routes, onComplete, eventVars, callVars, pausedTables, checkpoint, storeVars>>

\* The setInterval callback of startSyncInterval, its sync() in slot t.
TimerFires(t) ==
  /\ syncInterval[Eng]
  /\ ~isPausedFlag /\ onlineStatus
  /\ CallSync(t, onlineStatus, isPausedFlag)
  /\ UNCHANGED <<now, electVars, isRunning, syncInterval, isPausedFlag,
                 onlineStatus, startPc, subs, hooks, policy, routes, onComplete, eventVars, callVars, pausedTables, checkpoint, storeVars>>

\* config.sync.onOnline is set.
OnOnlineConfigured == TRUE

\* An 'online' listener that syncs whatever the engine's state.
OnlineSyncsAlways(running, leader) == OnOnlineConfigured

\* The 'online' listener of setupEventListeners calls sync() on a running leader.
OnlineSyncs(running, leader) == OnOnlineConfigured /\ running /\ leader

\* The window's online event, the engine's sync() in slot t.
GoOnline(t) ==
  /\ ~onlineStatus
  /\ onlineStatus' = TRUE
  /\ IF OnlineSyncs(isRunning[Eng], isLeaderFlag[Eng])
       THEN CallSync(t, TRUE, isPausedFlag)
       ELSE /\ t = 1
            /\ UNCHANGED <<task, isSyncingFlag>>
  /\ UNCHANGED <<now, electVars, isRunning, syncInterval, isPausedFlag, startPc,
                 subs, hooks, policy, routes, onComplete, eventVars, callVars, pausedTables, checkpoint, storeVars>>

\* config.sync.onVisibilityChange is set.
OnVisibilityConfigured == TRUE

\* The document becomes visible, the engine's sync() in slot t.
VisibilityChange(t) ==
  /\ OnVisibilityConfigured /\ isRunning[Eng] /\ isLeaderFlag[Eng]
  /\ CallSync(t, onlineStatus, isPausedFlag)
  /\ UNCHANGED <<now, electVars, isRunning, syncInterval, isPausedFlag,
                 onlineStatus, startPc, subs, hooks, policy, routes, onComplete, eventVars, callVars, pausedTables, checkpoint, storeVars>>

\* The window's offline event.
GoOffline ==
  /\ onlineStatus
  /\ onlineStatus' = FALSE
  /\ UNCHANGED <<now, electVars, isRunning, syncInterval, isPausedFlag,
                 isSyncingFlag, startPc, subs, hooks, policy, routes, onComplete, eventVars, callVars, pausedTables, checkpoint, storeVars, task>>

\* An external caller calls sync().
SyncCall(t) ==
  /\ CallSync(t, onlineStatus, isPausedFlag)
  /\ UNCHANGED <<now, electVars, isRunning, syncInterval, isPausedFlag,
                 onlineStatus, startPc, subs, hooks, policy, routes, onComplete, eventVars, callVars, pausedTables, checkpoint, storeVars>>

\* push(tbl), pull(tbl) and syncTable(tbl) are called.
PushCall(t, tbl) ==
  /\ Idle(t)
  /\ task' = [task EXCEPT ![t] =
                StartPush([IdleTask EXCEPT !.kind = "push", !.tbl = tbl], outbox)]
  /\ UNCHANGED <<now, electVars, lifeVars, storeVars>>

PullCall(t, tbl) ==
  /\ Idle(t)
  /\ task' = [task EXCEPT ![t] =
                StartPull([IdleTask EXCEPT !.kind = "pull", !.tbl = tbl])]
  /\ UNCHANGED <<now, electVars, lifeVars, storeVars>>

SyncTableCall(t, tbl) ==
  /\ Idle(t)
  /\ tbl \in Tables
  /\ task' = [task EXCEPT ![t] =
                StartPush([IdleTask EXCEPT !.kind = "syncTable", !.tbl = tbl], outbox)]
  /\ UNCHANGED <<now, electVars, lifeVars, storeVars>>

\* pauseTable(tbl) and resumeTable(tbl).
PauseTable(tbl) ==
  /\ tbl \notin pausedTables
  /\ pausedTables' = pausedTables \cup {tbl}
  /\ UNCHANGED <<now, electVars, isRunning, syncInterval, isPausedFlag,
                 isSyncingFlag, onlineStatus, startPc, subs, hooks, policy, routes,
                 onComplete, eventVars, callVars, checkpoint, storeVars, task>>

ResumeTable(tbl) ==
  /\ tbl \in pausedTables
  /\ pausedTables' = pausedTables \ {tbl}
  /\ UNCHANGED <<now, electVars, isRunning, syncInterval, isPausedFlag,
                 isSyncingFlag, onlineStatus, startPc, subs, hooks, policy, routes,
                 onComplete, eventVars, callVars, checkpoint, storeVars, task>>

\* The caller has its result; the slot is free again.
TaskReturn(t) ==
  /\ task[t].pc \in {"done", "rejected"}
  /\ task' = [task EXCEPT ![t] = IdleTask]
  /\ UNCHANGED <<now, electVars, lifeVars, storeVars>>

----------------------------------------------------------------------------
(***************************************************************************)
(* Local mutations, the remote service, requests settling                  *)
(***************************************************************************)

\* The application creates, updates or deletes a record of a synced table;
\* the table's hooks fire.
LocalWrite(cell, operation) ==
  /\ IF operation = "create" THEN local[cell] = NoRec ELSE local[cell] # NoRec
  /\ operation # "delete" => stamp < MaxStamp
  /\ nextId - 1 + subs[cell[1]] <= MaxOutboxAdds
  /\ LET obj == IF operation = "delete" THEN NoRec ELSE Rec(stamp + 1)
     IN /\ local' = [local EXCEPT ![cell] = obj]
        /\ outbox' = HooksFire(outbox, nextId, subs[cell[1]], cell[1], operation,
                               cell[2], obj)
        /\ nextId' = nextId + subs[cell[1]]
        /\ stamp' = IF operation = "delete" THEN stamp ELSE stamp + 1
  /\ UNCHANGED <<now, electVars, lifeVars, server, deadLetters, nextDlId, task>>

\* Another client writes a record of the remote service.
RemoteWrite(cell) ==
  /\ stamp < MaxStamp
  /\ stamp' = stamp + 1
  /\ server' = [server EXCEPT ![cell] = Rec(stamp + 1)]
  /\ UNCHANGED <<now, electVars, lifeVars, local, outbox, nextId, deadLetters,
                 nextDlId, task>>

\* The outbox of a retryable failure of item: updateRetry with the backoff.
ScheduleRetry(ob, item, error, r) ==
  UpdateRetry(ob, item.id, error.message, now + GetRetryDelay(item.attempt, r))

\* PushProcessor.pushItem settles for request j of call t: the remote answered
\* with status (0: no answer), r being the jitter draw of a retry.
PushSettle(t, j, status, r) ==
  /\ j \in task[t].inflight
  /\ LET tk == task[t]
         item == tk.items[j]
         cell == <<item.table, item.key>>
         error == ErrorFromStatus(status)
         ok == status = 200
         dead == ~ok /\ GoesToDeadLetters(item, error)
         tk1 == IF ok
                  THEN [tk EXCEPT !.pushed = @ + 1,
                                  !.accepted[cell] =
                                     IF item.operation # "delete" /\ item.obj.updatedAt > @
                                       THEN item.obj.updatedAt ELSE @]
                  ELSE [tk EXCEPT !.failed = @ + 1,
                                  !.pushErrors = Append(@, error)]
     IN /\ (ok \/ dead) => r = 0
        /\ server' = IF ok
                       THEN [server EXCEPT ![cell] =
                               IF item.operation = "delete" THEN NoRec ELSE item.obj]
                       ELSE server
        /\ outbox' = IF ok \/ dead THEN OutboxRemove(outbox, item.id)
                     ELSE ScheduleRetry(outbox, item, error, r)
        /\ deadLetters' = IF dead
                            THEN Append(deadLetters, DeadLetterItem(nextDlId, item, error))
                            ELSE deadLetters
        /\ nextDlId' = IF dead THEN nextDlId + 1 ELSE nextDlId
        /\ task' = [task EXCEPT ![t] = PushLoop(tk1, tk.inflight \ {j})]
        /\ isSyncingFlag' = SyncingAfter(isSyncingFlag, tk, task'[t])
  /\ UNCHANGED <<now, electVars, isRunning, syncInterval, isPausedFlag,
                 onlineStatus, startPc, subs, hooks, policy, routes, onComplete, eventVars, callVars, pausedTables, checkpoint, local, stamp, nextId>>

\* The records the remote service returns for a table.
Fetched(srv, table) ==
  SelectSeq([k \in 1..NKeys |-> [id |-> k, obj |-> srv[<<table, k>>]]],
            LAMBDA x : x.obj # NoRec)

\* The response to the query of a route with checkpoints: the records
\* updated after the revision rev (updated_after of the route's query).
UpdatedAfter(items, rev) ==
  SelectSeq(items, LAMBDA x : x.obj.updatedAt > rev)

RECURSIVE Latest(_)
\* Math.max over the updatedAt of the response's records.
Latest(items) ==
  IF items = <<>> THEN NoTime
  ELSE LET rest == Latest(Tail(items))
       IN IF Head(items).obj.updatedAt > rest THEN Head(items).obj.updatedAt ELSE rest

\* context.setCheckpoint(scope, revision) on the checkpoints cp.
SetCheckpoint(cp, table, revision) == [cp EXCEPT ![table] = revision]

\* A completion callback that saves a checkpoint for a failed fetch as well.
OnCompleteAlways(cp, table, ok, items) ==
  IF items # <<>> \/ ~ok THEN SetCheckpoint(cp, table, Latest(items) + 1) ELSE cp

\* The route's onComplete(response, ctx): it saves the latest updatedAt of a
\* response that has records; RestAdapter.pull calls it after a fetch that did
\* not throw.
OnCompleteCallback(cp, table, ok, items) ==
  IF ok /\ items # <<>> THEN SetCheckpoint(cp, table, Latest(items)) ELSE cp

\* RestAdapter.pull settles for call t: the fetch succeeded or failed.
FetchSettle(t, ok) ==
  /\ task[t].pc = "fetching"
  /\ LET tk == task[t]
         table == tk.tables[tk.ti]
         all == Fetched(server, table)
         items == IF onComplete THEN UpdatedAfter(all, checkpoint[table]) ELSE all
         tk1 == IF ok /\ onComplete THEN [tk EXCEPT !.completed = @ + 1] ELSE tk
     IN /\ task' = [task EXCEPT ![t] =
                      IF ~ok THEN NextTable([tk1 EXCEPT !.errors = @ + 1])
                      ELSE IF items = <<>> THEN NextTable(tk1)
                      ELSE [tk1 EXCEPT !.pc = "applying", !.fetched = items]]
        /\ checkpoint' = IF onComplete
                           THEN OnCompleteCallback(checkpoint, table, ok, items)
                           ELSE checkpoint
        /\ isSyncingFlag' = SyncingAfter(isSyncingFlag, tk, task'[t])
  /\ UNCHANGED <<now, electVars, isRunning, syncInterval, isPausedFlag,
                 onlineStatus, startPc, subs, hooks, policy, routes, onComplete, eventVars, callVars,
                 pausedTables, storeVars>>

\* ChangeApplier.applyChanges handles the next fetched record of call t;
\* useLocal is the choice of a custom resolver between the two versions.
ApplyNext(t, useLocal) ==
  /\ task[t].pc = "applying"
  /\ LET tk == task[t]
         table == tk.tables[tk.ti]
         item == Head(tk.fetched)
         cell == <<table, item.id>>
         custom == IF useLocal THEN local[cell] ELSE item.obj
         conflict == ConflictDetected(outbox, local, policy, table, item.id, item.obj)
         value == AppliedValue(outbox, local, policy, table, item.id, item.obj, custom)
         tk1 == [tk EXCEPT !.applied = @ + 1,
                           !.conflicts = IF conflict THEN @ + 1 ELSE @,
                           !.fetched = Tail(@)]
     IN /\ (useLocal => policy = "custom" /\ conflict)
        /\ nextId - 1 + subs[table] <= MaxOutboxAdds
        /\ local' = [local EXCEPT ![cell] = value]
        /\ outbox' = HooksFire(outbox, nextId, subs[table], table,
                               PutOperation(local, cell), item.id, value)
        /\ nextId' = nextId + subs[table]
        /\ task' = [task EXCEPT ![t] =
                      IF tk1.fetched = <<>> THEN NextTable(tk1) ELSE tk1]
        /\ isSyncingFlag' = SyncingAfter(isSyncingFlag, tk, task'[t])
  /\ UNCHANGED <<now, electVars, isRunning, syncInterval, isPausedFlag,
                 onlineStatus, startPc, subs, hooks, policy, routes, onComplete, eventVars, callVars, pausedTables, checkpoint, server, stamp,
                 deadLetters, nextDlId>>

\* A catch that puts the remote record when resolving throws.
DefaultToRemote(loc, cell, remote) == [loc EXCEPT ![cell] = remote]

\* The table after the catch of applyChanges for a record whose resolution
\* threw: the put was not reached.
AfterApplyFailure(loc, cell, remote) == loc

\* ChangeApplier.applyChanges handles the next fetched record of call t and
\* config.onConflict throws: the conflict was counted, the catch logs the
\* failure and the loop goes on.
ApplyThrows(t) ==
  /\ task[t].pc = "applying"
  /\ LET tk == task[t]
         table == tk.tables[tk.ti]
         item == Head(tk.fetched)
         cell == <<table, item.id>>
         tk1 == [tk EXCEPT !.conflicts = @ + 1,
                           !.applyFailed = @ + 1,
                           !.fetched = Tail(@)]
     IN /\ policy = "custom"
        /\ ConflictDetected(outbox, local, policy, table, item.id, item.obj)
        /\ local' = AfterApplyFailure(local, cell, item.obj)
        /\ task' = [task EXCEPT ![t] =
                      IF tk1.fetched = <<>> THEN NextTable(tk1) ELSE tk1]
        /\ isSyncingFlag' = SyncingAfter(isSyncingFlag, tk, task'[t])
  /\ UNCHANGED <<now, electVars, isRunning, syncInterval, isPausedFlag,
                 onlineStatus, startPc, subs, hooks, policy, routes, onComplete, eventVars, callVars,
                 pausedTables, checkpoint, server, stamp, outbox, nextId,
                 deadLetters, nextDlId>>

\* retryDeadLetter(id) for the dead letter at position d.
RetryDeadLetter(d) ==
  /\ d \in 1..Len(deadLetters)
  /\ nextId <= MaxOutboxAdds
  /\ LET item == deadLetters[d]
     IN /\ outbox' = OutboxAdd(outbox, nextId, item.table, item.operation,
                               item.key, item.obj)
        /\ nextId' = nextId + 1
        /\ deadLetters' = SelectSeq(deadLetters, LAMBDA x : x.id # item.id)
  /\ UNCHANGED <<now, electVars, lifeVars, local, server, stamp, nextDlId, task>>

\* Time passes until a scheduled retry is due.
RetryTimeArrives ==
  /\ \E i \in 1..Len(outbox) :
       /\ outbox[i].nextRetryAt > now
       /\ outbox[i].nextRetryAt <= TimeHorizon
       /\ now' = outbox[i].nextRetryAt
  /\ UNCHANGED <<electVars, engineVars>>

----------------------------------------------------------------------------
\* Event delivery (SyncContext.emit / SyncContext.on).
NHandlers == 3
Handlers == 1..NHandlers
EventNames == {"sync-start", "conflict"}
NoDelivery == [event |-> "none", invoked |-> <<>>, logged |-> <<>>, threw |-> FALSE]

\* Set.add on a Set kept in insertion order: a member keeps its place.
SetAdd(set, h) == IF h \in Range(set) THEN set ELSE Append(set, h)

\* Set.delete.
SetDelete(set, h) == SelectSeq(set, LAMBDA x : x # h)

\* A forEach without the try/catch: the first handler that throws ends the
\* delivery and its exception reaches the emitter.
RECURSIVE ForEachUnguarded(_, _)
ForEachUnguarded(handlers, throwing) ==
  IF handlers = <<>>
    THEN [invoked |-> <<>>, logged |-> <<>>, threw |-> FALSE]
    ELSE IF Head(handlers) \in throwing
           THEN [invoked |-> <<Head(handlers)>>, logged |-> <<>>, threw |-> TRUE]
           ELSE LET rest == ForEachUnguarded(Tail(handlers), throwing)
                IN [rest EXCEPT !.invoked = <<Head(handlers)>> \o @]

\* handlers.forEach(handler => try { handler(data) } catch { console.error })
\* over the handlers of one event, those in throwing throwing.
RECURSIVE ForEach(_, _)
ForEach(handlers, throwing) ==
  IF handlers = <<>>
    THEN [invoked |-> <<>>, logged |-> <<>>, threw |-> FALSE]
    ELSE LET rest == ForEach(Tail(handlers), throwing)
         IN [rest EXCEPT !.invoked = <<Head(handlers)>> \o @,
                         !.logged = IF Head(handlers) \in throwing
                                     THEN <<Head(handlers)>> \o @ ELSE @]

\* context.on(event, handler).
On(e, h) ==
  /\ eventHandlers' = [eventHandlers EXCEPT ![e] = SetAdd(@, h)]
  /\ UNCHANGED <<now, electVars, isRunning, syncInterval, isPausedFlag, isSyncingFlag,
                 onlineStatus, startPc, subs, hooks, policy, routes, onComplete, delivered, callVars,
                 pausedTables, checkpoint, storeVars, task>>

\* The function returned by on(event, handler) is called while the handler
\* is in the Set (when it is not, the call changes nothing).
Unsubscribe(e, h) ==
  /\ h \in Range(eventHandlers[e])
  /\ eventHandlers' = [eventHandlers EXCEPT ![e] = SetDelete(@, h)]
  /\ UNCHANGED <<now, electVars, isRunning, syncInterval, isPausedFlag, isSyncingFlag,
                 onlineStatus, startPc, subs, hooks, policy, routes, onComplete, delivered, callVars,
                 pausedTables, checkpoint, storeVars, task>>

\* context.emit(event, data), the handlers in throwing throwing.
Emit(e, throwing) ==
  /\ delivered' = [event |-> e] @@ ForEach(eventHandlers[e], throwing)
  /\ UNCHANGED <<now, electVars, isRunning, syncInterval, isPausedFlag, isSyncingFlag,
                 onlineStatus, startPc, subs, hooks, policy, routes, onComplete, eventHandlers, callVars,
                 pausedTables, checkpoint, storeVars, task>>

\* Conflicts handed to resolve(): two versions of a record and their
\* timestamps (0: undefined).
Versions == {Rec(st) : st \in 1..2}
Conflicts ==
  [table : {"posts"}, key : {1}, local : Versions, remote : Versions,
   localTimestamp : 0..MaxStamp, remoteTimestamp : 0..MaxStamp]
NoResolution ==
  [policy |-> "none", conflict |-> <<>>, custom |-> NoRec, result |-> NoRec, steps |-> <<>>]

\* A resolve() that runs the policy before it emits the event.
ResolvePolicyFirst(pol) ==
  <<IF pol = "custom" THEN "onConflict" ELSE "strategy", "emit">>

\* What resolve() does, in order: the 'conflict' event, then config.onConflict
\* under custom or the built-in strategy.
ResolveSteps(pol) ==
  <<"emit", IF pol = "custom" THEN "onConflict" ELSE "strategy">>

\* resolver.resolve(conflict) under policy pol, config.onConflict returning
\* custom, the handlers of 'conflict' in throwing throwing.
ResolveCall(pol, conflict, custom, throwing) ==
  /\ resolution' = [policy |-> pol, conflict |-> conflict, custom |-> custom,
                    result |-> Resolve(pol, conflict, custom),
                    steps |-> ResolveSteps(pol)]
  /\ delivered' = [event |-> "conflict", data |-> conflict,
                   at |-> CHOOSE i \in 1..2 : ResolveSteps(pol)[i] = "emit"]
                     @@ ForEach(eventHandlers["conflict"], throwing)
  /\ UNCHANGED <<now, electVars, isRunning, syncInterval, isPausedFlag, isSyncingFlag,
                 onlineStatus, startPc, subs, hooks, policy, routes, onComplete,
                 eventHandlers, detection, backoff,
                 pausedTables, checkpoint, storeVars, task>>

\* Records handed to detectConflict(): updatedAt and version set or not.
DetectRecords == [updatedAt : {Undefined} \cup (0..2), version : {NoVersion, 1, 2}]

\* resolver.detectConflict(loc, remote).
DetectCall(loc, remote) ==
  /\ detection' = [local |-> loc, remote |-> remote,
                   result |-> DetectConflict(loc, remote)]
  /\ UNCHANGED <<now, electVars, isRunning, syncInterval, isPausedFlag, isSyncingFlag,
                 onlineStatus, startPc, subs, hooks, policy, routes, onComplete, eventVars,
                 resolution, backoff, pausedTables, checkpoint, storeVars, task>>

\* Attempt numbers and Math.random() draws (in thousandths) handed to
\* calculateBackoff().
MaxAttempt == 9
BackoffDraws == {r \in 0..999 : r % 90 = 0} \cup {999}

\* calculateBackoff(attempt), Math.random() returning r / 1000.
BackoffCall(attempt, r) ==
  /\ backoff' = [attempt |-> attempt, draw |-> r, delay |-> CalculateBackoff(attempt, r)]
  /\ UNCHANGED <<now, electVars, isRunning, syncInterval, isPausedFlag, isSyncingFlag,
                 onlineStatus, startPc, subs, hooks, policy, routes, onComplete, eventVars,
                 resolution, detection, pausedTables, checkpoint, storeVars, task>>

----------------------------------------------------------------------------
Policies == {"none", "server-wins", "client-wins", "lww", "custom"}

\* The state after startSync(db, config), the configuration having conflict
\* policy pol, routes for the tables rts and, if oc, an onComplete callback.
InitRoutes(pol, rts, oc) ==
  /\ now = 1
  /\ isLeaderFlag = [i \in Inst |-> FALSE]
  /\ electionTimeout = [i \in Inst |-> NoTime]
  /\ heartbeatInterval = [i \in Inst |-> FALSE]
  /\ settleTimers = [i \in Inst |-> 0]
  /\ elections = [i \in Inst |-> 0]
  /\ heartbeats = [i \in Inst |-> 0]
  /\ chan = [p \in Pairs |-> <<>>]
  /\ closed = [i \in Inst |-> FALSE]
  /\ observed = [i \in Inst |-> FALSE]
  /\ isRunning = [i \in Inst |-> FALSE]
  /\ syncInterval = [i \in Inst |-> FALSE]
  /\ isPausedFlag = FALSE
  /\ isSyncingFlag = FALSE
  /\ onlineStatus = TRUE
  /\ startPc = [c \in StartIds |-> "idle"]
  /\ subs = [tb \in Tables |-> 0]
  /\ hooks = [tb \in Tables |-> FALSE]
  /\ policy = pol
  /\ routes = rts
  /\ onComplete = oc
  /\ pausedTables = {}
  /\ checkpoint = [tb \in Tables |-> NoTime]
  /\ local = [c \in Cells |-> NoRec]
  /\ server = [c \in Cells |-> NoRec]
  /\ stamp = 0
  /\ outbox = <<>>
  /\ nextId = 1
  /\ deadLetters = <<>>
  /\ nextDlId = 1
  /\ task = [t \in TaskIds |-> IdleTask]
  /\ eventHandlers = [e \in EventNames |-> <<>>]
  /\ delivered = NoDelivery
  /\ resolution = NoResolution
  /\ detection = <<>>
  /\ backoff = <<>>

\* The same, the pull routes having no onComplete.
InitConfig(pol, rts) == InitRoutes(pol, rts, FALSE)

Init == InitConfig("lww", <<"posts">>)

\* N instances run electLeader() over one broadcast channel.
NextElection ==
  \/ Tick
  \/ \E i \in Inst : ElectLeader(i)
  \/ \E i \in Inst : SettleTimeout(i)
  \/ \E i \in Inst : HeartbeatFires(i)
  \/ \E p \in Pairs : OnMessage(p[1], p[2])

SpecElection == Init /\ [][NextElection]_vars

\* The engine's life cycle and its callers of sync(), the
\* remote service accepting or refusing what is pushed.
NextSync ==
  \/ StartCall(1)
  \/ \E t \in TaskIds : StartElected(1, t)
  \/ Pause
  \/ \E t \in TaskIds : Resume(t)
  \/ \E t \in TaskIds : TimerFires(t)
  \/ \E t \in TaskIds : GoOnline(t)
  \/ GoOffline
  \/ \E t \in TaskIds : VisibilityChange(t)
  \/ \E t \in TaskIds : SyncCall(t)
  \/ \E t \in TaskIds : TaskReturn(t)
  \/ \E k \in Keys, op \in {"create", "update"} : LocalWrite(<<"posts", k>>, op)
  \/ \E t \in TaskIds, j \in 1..MaxOutboxAdds, st \in PushStatuses, r \in JitterDraws :
       PushSettle(t, j, st, r)
  \/ \E t \in TaskIds, ok \in BOOLEAN : FetchSettle(t, ok)
  \/ \E t \in TaskIds : ApplyNext(t, FALSE)

SpecSync == Init /\ [][NextSync]_vars

\* The application starts the engine, once or twice over, and works on its
\* tables online and offline; what it pushes is accepted.
NextTrack ==
  \/ \E c \in StartIds : StartCall(c)
  \/ \E c \in StartIds, t \in TaskIds : StartElected(c, t)
  \/ GoOnline(1)
  \/ GoOffline
  \/ \E k \in Keys, op \in {"create", "update", "delete"} :
       LocalWrite(<<"posts", k>>, op)
  \/ \E t \in TaskIds : PushCall(t, NoTable)
  \/ \E t \in TaskIds, j \in 1..MaxOutboxAdds : PushSettle(t, j, 200, 0)
  \/ \E t \in TaskIds : FetchSettle(t, TRUE)
  \/ \E t \in TaskIds : ApplyNext(t, FALSE)
  \/ \E t \in TaskIds : TaskReturn(t)

SpecTrack == Init /\ [][NextTrack]_vars

\* A started engine whose sync() and syncTable() cycles push what the
\* application wrote, the remote service answering each request as it likes.
NextCycle ==
  \/ StartCall(1)
  \/ \E t \in TaskIds : StartElected(1, t)
  \/ \E k \in Keys, op \in {"create", "update"} : LocalWrite(<<"posts", k>>, op)
  \/ \E t \in TaskIds : SyncCall(t)
  \/ \E t \in TaskIds : SyncTableCall(t, "posts")
  \/ \E t \in TaskIds, j \in 1..MaxOutboxAdds, st \in {200, 500} :
       PushSettle(t, j, st, 0)
  \/ \E t \in TaskIds : FetchSettle(t, TRUE)
  \/ \E t \in TaskIds : ApplyNext(t, FALSE)
  \/ \E t \in TaskIds : TaskReturn(t)

SpecCycle == Init /\ [][NextCycle]_vars

\* A started engine whose pushes the remote service accepts, refuses or fails
\* to serve; retries fall due and dead letters are requeued.
NextPush ==
  \/ StartCall(1)
  \/ \E t \in TaskIds : StartElected(1, t)
  \/ \E k \in Keys : LocalWrite(<<"posts", k>>, "create")
  \/ \E t \in TaskIds : PushCall(t, NoTable)
  \/ \E t \in TaskIds, j \in 1..MaxOutboxAdds, st \in PushStatuses :
       PushSettle(t, j, st, 0)
  \/ \E t \in TaskIds : FetchSettle(t, FALSE)
  \/ \E t \in TaskIds : TaskReturn(t)
  \/ \E d \in 1..MaxOutboxAdds : RetryDeadLetter(d)
  \/ RetryTimeArrives

SpecPush == Init /\ [][NextPush]_vars

\* A started engine under each conflict policy: the application and another
\* client write the same records, and sync() cycles push and pull them.
NextPull ==
  \/ StartCall(1)
  \/ StartElected(1, 1)
  \/ \E k \in Keys, op \in {"create", "update", "delete"} :
       LocalWrite(<<"posts", k>>, op)
  \/ \E k \in Keys : RemoteWrite(<<"posts", k>>)
  \/ SyncCall(1)
  \/ PullCall(1, NoTable)
  \/ \E j \in 1..MaxOutboxAdds : PushSettle(1, j, 200, 0)
  \/ FetchSettle(1, TRUE)
  \/ \E useLocal \in BOOLEAN : ApplyNext(1, useLocal)
  \/ ApplyThrows(1)
  \/ TaskReturn(1)

InitPull == \E pol \in Policies : InitConfig(pol, <<"posts">>)

SpecPull == InitPull /\ [][NextPull]_vars

\* The same engine under the custom policy, its pull route having an
\* onComplete that saves the checkpoint.
InitCheckpoint == InitRoutes("custom", <<"posts">>, TRUE)
SpecCheckpoint == InitCheckpoint /\ [][NextPull]_vars

\* One engine whose tables are paused and resumed while the application
\* writes, another client writes, and push(), pull(), sync() and syncTable()
\* are called.
NextPause ==
  \/ StartCall(1)
  \/ StartElected(1, 1)
  \/ \E tbl \in Range(routes) : PauseTable(tbl)
  \/ \E tbl \in Range(routes) : ResumeTable(tbl)
  \/ \E k \in Keys : LocalWrite(<<"posts", k>>, "create")
  \/ \E k \in Keys : RemoteWrite(<<"posts", k>>)
  \/ SyncCall(1)
  \/ PushCall(1, NoTable)
  \/ PullCall(1, NoTable)
  \/ SyncTableCall(1, "posts")
  \/ \E j \in 1..MaxOutboxAdds : PushSettle(1, j, 200, 0)
  \/ FetchSettle(1, TRUE)
  \/ ApplyNext(1, FALSE)
  \/ TaskReturn(1)

SpecPause == Init /\ [][NextPause]_vars

\* The HTTP outcomes of a push request with a queue of several items: the
\* rate limit (429) among them.
QueueStatuses == {200, 500, 429, 400}

\* One engine whose application creates and updates records while push()
\* calls, which may overlap, send the queue and the remote service accepts,
\* fails, rate-limits or refuses each request.
NextQueue ==
  \/ StartCall(1)
  \/ \E t \in TaskIds : StartElected(1, t)
  \/ \E k \in Keys : LocalWrite(<<"posts", k>>, "create")
  \/ \E k \in Keys : LocalWrite(<<"posts", k>>, "update")
  \/ \E t \in TaskIds : PushCall(t, NoTable)
  \/ \E t \in TaskIds, j \in 1..MaxOutboxAdds, st \in QueueStatuses :
       PushSettle(t, j, st, 0)
  \/ \E t \in TaskIds : FetchSettle(t, FALSE)
  \/ \E t \in TaskIds : TaskReturn(t)

SpecQueue == Init /\ [][NextQueue]_vars

\* One engine with pull routes for two tables, each with an onComplete that
\* saves the checkpoint: other clients write both tables, pull() and sync()
\* are called, and each table's fetch succeeds or fails.
NextTables ==
  \/ StartCall(1)
  \/ StartElected(1, 1)
  \/ \E c \in Cells : RemoteWrite(c)
  \/ \E c \in Cells : LocalWrite(c, "create")
  \/ SyncCall(1)
  \/ PullCall(1, NoTable)
  \/ \E tbl \in Tables : PullCall(1, tbl)
  \/ \E j \in 1..MaxOutboxAdds : PushSettle(1, j, 200, 0)
  \/ \E ok \in BOOLEAN : FetchSettle(1, ok)
  \/ ApplyNext(1, FALSE)
  \/ TaskReturn(1)

InitTables == InitRoutes("lww", <<"notes", "posts">>, TRUE)

SpecTables == InitTables /\ [][NextTables]_vars

\* The engine Eng is started and stopped, stop() coming at any point: before
\* or during the election of start(), while a sync cycle runs, or later. A
\* peer instance holds elections on the same channel, timers fire and
\* messages are delivered after stop() as before it; the application calls
\* sync() only before stop().
NextStop ==
  \/ StartCall(1)
  \/ StartElected(1, 1)
  \/ Stop
  \/ \E i \in Inst : i # Eng /\ ElectLeader(i)
  \/ \E i \in Inst : (i # Eng \/ closed[Eng]) /\ SettleTimeout(i)
  \/ \E i \in Inst : HeartbeatFires(i)
  \/ \E p \in Pairs : OnMessage(p[1], p[2])
  \/ \E k \in Keys : LocalWrite(<<"posts", k>>, "create")
  \/ \E k \in Keys : LocalWrite(<<"posts", k>>, "update")
  \/ ~closed[Eng] /\ SyncCall(1)
  \/ \E j \in 1..MaxOutboxAdds : PushSettle(1, j, 200, 0)
  \/ FetchSettle(1, TRUE)
  \/ ApplyNext(1, FALSE)
  \/ TaskReturn(1)

SpecStop == Init /\ [][NextStop]_vars

\* The engine Eng runs elections from overlapping start() calls while time
\* passes and a peer instance on the channel answers them.
NextCandidate ==
  \/ Tick
  \/ \E c \in StartIds : StartCall(c)
  \/ \E c \in StartIds, t \in TaskIds : StartElected(c, t)
  \/ \E p \in Pairs : OnMessage(p[1], p[2])
  \/ \E i \in Inst : HeartbeatFires(i)
  \/ \E t \in TaskIds : FetchSettle(t, FALSE)
  \/ \E t \in TaskIds : TaskReturn(t)

SpecCandidate == Init /\ [][NextCandidate]_vars

\* Handlers are registered, unsubscribed and events emitted, any of the
\* handlers throwing.
NextEvents ==
  \/ \E e \in EventNames, h \in Handlers : On(e, h)
  \/ \E e \in EventNames, h \in Handlers : Unsubscribe(e, h)
  \/ \E e \in EventNames, throwing \in SUBSET Handlers : Emit(e, throwing)
SpecEvents == Init /\ [][NextEvents]_vars

\* resolve() is called with any conflict under any policy.
NextResolve ==
  \E pol \in Policies, conflict \in Conflicts, custom \in Versions :
    ResolveCall(pol, conflict, custom, {})
SpecResolve == Init /\ [][NextResolve]_vars

\* Handlers subscribe to and unsubscribe from 'conflict' while resolve() is
\* called under each policy, any of the handlers throwing.
SampleConflicts ==
  {c \in Conflicts : c.local = Rec(1) /\ c.localTimestamp = 1 /\ c.remoteTimestamp = 2}
NextConflictEvent ==
  \/ \E h \in Handlers : On("conflict", h)
  \/ \E h \in Handlers : Unsubscribe("conflict", h)
  \/ \E pol \in Policies \ {"none"}, conflict \in SampleConflicts, custom \in Versions,
        throwing \in SUBSET Handlers : ResolveCall(pol, conflict, custom, throwing)
SpecConflictEvent == Init /\ [][NextConflictEvent]_vars

\* detectConflict() is called with any local copy, or none, and any remote record.
NextDetect ==
  \E loc \in DetectRecords \cup {NoRec}, remote \in DetectRecords : DetectCall(loc, remote)
SpecDetect == Init /\ [][NextDetect]_vars

\* calculateBackoff() is called with any attempt number and jitter draw.
NextBackoff == \E attempt \in 0..MaxAttempt, r \in BackoffDraws : BackoffCall(attempt, r)
SpecBackoff == Init /\ [][NextBackoff]_vars

\* A constructed engine before and after its start(): the other instance
\* elects itself and heartbeats, the window goes offline and online, the
\* document becomes visible, the application writes, time passes.
NextInitial ==
  \/ Tick
  \/ \E i \in Inst : i # Eng /\ ElectLeader(i)
  \/ \E i \in Inst : i # Eng /\ SettleTimeout(i)
  \/ \E i \in Inst : HeartbeatFires(i)
  \/ \E p \in Pairs : OnMessage(p[1], p[2])
  \/ GoOnline(1)
  \/ GoOffline
  \/ VisibilityChange(1)
  \/ TimerFires(1)
  \/ \E k \in Keys : LocalWrite(<<"posts", k>>, "create")
  \/ StartCall(1)
  \/ StartElected(1, 1)
  \/ FetchSettle(1, TRUE)
  \/ TaskReturn(1)
SpecInitial == Init /\ [][NextInitial]_vars

----------------------------------------------------------------------------
Leaders == {i \in Inst : isLeaderFlag[i]}

\* Every instance has run its election, every settle window has elapsed and
\* every broadcast message has been delivered.
Settled ==
  /\ \A i \in Inst : elections[i] > 0 /\ settleTimers[i] = 0
  /\ \A p \in Pairs : chan[p] = <<>>

\* C1: once every settle window has elapsed and every message has been
\* delivered, exactly one instance is leader.
LeaderUniqueness == Settled => Cardinality(Leaders) = 1

\* C2: in every reachable state at most one instance has its leader flag set.
AtMostOneLeader == Cardinality(Leaders) <= 1

----------------------------------------------------------------------------
\* A step in which the application creates, updates or deletes a record of a
\* tracked table.
LocalMutation ==
  /\ task' = task
  /\ \E c \in Cells : c[1] \in GetSyncedTables /\ local'[c] # local[c]

\* C4: while a started engine is offline, every local create, update or
\* delete on a tracked table adds exactly one Outbox entry.
OutboxDurability ==
  [][isRunning[Eng] /\ ~onlineStatus /\ LocalMutation =>
       GetDepth(outbox') = GetDepth(outbox) + 1]_vars

----------------------------------------------------------------------------
\* A step in which sync() is called in slot t.
SyncCalled(t) == task[t].pc = "idle" /\ task'[t].kind = "sync"

\* The error of the first guard of sync() that fails while a cycle is active.
RejectionWhileActive(online, paused) ==
  IF ~online THEN "Cannot sync while offline"
  ELSE IF paused THEN "Sync is paused"
  ELSE "Sync already in progress"

\* C3: at most one sync() cycle is active at any time, and a sync() call made
\* while a cycle is active is rejected, never queued or run: with 'Cannot sync
\* while offline' when the engine is offline, with 'Sync is paused' when it is
\* online and paused, and with 'Sync already in progress' otherwise.
SyncMutualExclusion ==
  [][/\ Cardinality(ActiveCycles') <= 1
     /\ isSyncingFlag' <=> ActiveCycles' # {}
     /\ \A t \in TaskIds :
          SyncCalled(t) /\ ActiveCycles # {} =>
            /\ task'[t].pc = "rejected"
            /\ task'[t].err = RejectionWhileActive(onlineStatus', isPausedFlag')]_vars

\* A call of sync() stands rejected with 'Sync already in progress' while the
\* cycle that holds the flag is still active.
SyncRejectedWhileActive ==
  \E t \in TaskIds :
    /\ task[t].pc = "rejected" /\ task[t].err = "Sync already in progress"
    /\ ActiveCycles # {} /\ isSyncingFlag

\* C3 as stated: every sync() call made while a cycle is active is rejected
\* with 'Sync already in progress'.
SyncRejectedAlreadyInProgress ==
  [][/\ Cardinality(ActiveCycles') <= 1
     /\ \A t \in TaskIds :
          SyncCalled(t) /\ ActiveCycles # {} =>
            /\ task'[t].pc = "rejected"
            /\ task'[t].err = "Sync already in progress"]_vars

----------------------------------------------------------------------------
\* A step in which a request of push call t fails, the item it carried and
\* the error pushItem caught.
PushFailed(t) == task'[t].failed = task[t].failed + 1
FailedItem(t) ==
  task[t].items[CHOOSE j \in task[t].inflight : j \notin task'[t].inflight]
FailedError(t) == task'[t].pushErrors[Len(task'[t].pushErrors)]

InOutbox(ob, id) == \E i \in 1..Len(ob) : ob[i].id = id
Entry(ob, id) == ob[CHOOSE i \in 1..Len(ob) : ob[i].id = id]

\* The dead letter just stored carries the item's table, operation, key and
\* payload, and the attempt count the item was pushed with.
DeadLettered(item) ==
  /\ Len(deadLetters') = Len(deadLetters) + 1
  /\ SubSeq(deadLetters', 1, Len(deadLetters)) = deadLetters
  /\ LET d == deadLetters'[Len(deadLetters')]
     IN /\ d.table = item.table /\ d.operation = item.operation
        /\ d.key = item.key /\ d.obj = item.obj
        /\ d.originalAttempts = item.attempt
  /\ ~InOutbox(outbox', item.id)

RetryableTypes == {"network", "server", "quota"}

\* C6: an item whose push fails with a retryable error when its attempt count
\* has reached maxRetries is stored in the Dead-Letter Store and absent from
\* the Outbox, and no dead letter with a retryable error has fewer than
\* maxRetries original attempts; until that last push fails the item is an
\* Outbox entry with attempt equal to maxRetries.
DeadLetterTerminality ==
  [][/\ \A t \in TaskIds :
          (/\ PushFailed(t) /\ FailedError(t).retryable
           /\ FailedItem(t).attempt >= GetMaxRetries) => DeadLettered(FailedItem(t))
     /\ \A d \in 1..Len(deadLetters') :
          deadLetters'[d].errorType \in RetryableTypes =>
            deadLetters'[d].originalAttempts >= GetMaxRetries]_vars

\* An item that used up its retries lies in the Dead-Letter Store with
\* maxRetries original attempts and is gone from the Outbox.
RetriesExhausted ==
  \E d \in 1..Len(deadLetters) :
    /\ deadLetters[d].errorType = "server"
    /\ deadLetters[d].originalAttempts = GetMaxRetries
    /\ outbox = <<>>

\* C6 as stated: no Outbox entry has attempt equal to maxRetries.
NoEntryAtMaxRetries ==
  \A i \in 1..Len(outbox) : outbox[i].attempt # GetMaxRetries

\* C7: retryDeadLetter(id) for an existing dead letter removes it from the
\* Dead-Letter Store and adds exactly one Outbox entry with the same table,
\* operation, key and payload, attempt 0 and no nextRetryAt, which is pending
\* at once.
RequeueDeadLetter ==
  [][Len(deadLetters') < Len(deadLetters) =>
       \E d \in 1..Len(deadLetters) :
         LET item == deadLetters[d]
             e == outbox'[Len(outbox')]
         IN /\ deadLetters' = SelectSeq(deadLetters, LAMBDA x : x.id # item.id)
            /\ \A k \in 1..Len(deadLetters') : deadLetters'[k].id # item.id
            /\ Len(outbox') = Len(outbox) + 1
            /\ SubSeq(outbox', 1, Len(outbox)) = outbox
            /\ e.table = item.table /\ e.operation = item.operation
            /\ e.key = item.key /\ e.obj = item.obj
            /\ e.attempt = 0 /\ e.nextRetryAt = NoTime
            /\ IsPending(e)]_vars

\* A dead letter has been requeued: the Dead-Letter Store is empty again and
\* the Outbox holds the mutation as a fresh entry.
Requeued ==
  /\ nextDlId > 1 /\ deadLetters = <<>>
  /\ \E i \in 1..Len(outbox) :
       outbox[i].id > 1 /\ outbox[i].attempt = 0 /\ outbox[i].nextRetryAt = NoTime

----------------------------------------------------------------------------
\* The calls of sync() and syncTable() that are in their pull phase.
Pulling ==
  {t \in TaskIds : /\ task[t].kind \in {"sync", "syncTable"}
                   /\ task[t].pc \in {"fetching", "applying"}}

\* C8: while a sync() or syncTable() call is in its pull phase (a fetch is
\* issued or fetched records are being written) its push phase is complete:
\* every item it selected was dispatched, no push request of the call is in
\* flight, and each item is gone from the Outbox or has had its retry recorded.
PushBeforePull ==
  \A t \in Pulling :
    /\ task[t].inflight = {}
    /\ task[t].idx = Len(task[t].items)
    /\ task[t].pushed + task[t].failed = Len(task[t].items)
    /\ \A j \in 1..Len(task[t].items) :
         InOutbox(outbox, task[t].items[j].id) =>
           Entry(outbox, task[t].items[j].id).attempt > task[t].items[j].attempt

\* A sync() cycle fetches after a push of two items, one accepted and one
\* failed.
PullingAfterPush ==
  \E t \in Pulling :
    /\ task[t].kind = "sync" /\ task[t].pc = "fetching"
    /\ Len(task[t].items) = 2 /\ task[t].pushed = 1 /\ task[t].failed = 1

----------------------------------------------------------------------------
\* C9: when a sync() cycle in which the server accepted pushed updates of a
\* record completes, the local value of the record is not older than the
\* newest accepted one.
NoRegressionAfterSync ==
  [][\A t \in TaskIds :
       (task[t].kind = "sync" /\ task[t].pc # "done" /\ task'[t].pc = "done") =>
         \A c \in Cells :
           task'[t].accepted[c] > 0 /\ local'[c] # NoRec =>
             local'[c].updatedAt >= task'[t].accepted[c]]_vars

\* A step in which pull call t applies a fetched record.
Applies(t) == task[t].pc = "applying" /\ task'[t].applied = task[t].applied + 1

\* C10: for each fetched record, with no Outbox entry for its key the remote
\* value is written; with an entry and a conflict detected against the local
\* copy the value chosen by the configured policy is written and one
\* conflict counted (under lww the remote value when its updatedAt is the
\* larger); with an entry and no conflict detected the remote value is written.
ApplyRule ==
  [][\A t \in TaskIds :
       Applies(t) =>
         LET table == task[t].tables[task[t].ti]
             remote == Head(task[t].fetched)
             c == <<table, remote.id>>
             hasEntry == \E i \in 1..Len(outbox) :
                           outbox[i].table = table /\ outbox[i].key = remote.id
             detected == /\ local[c] # NoRec /\ policy # "none"
                         /\ DetectConflict(local[c], remote.obj)
         IN IF hasEntry /\ detected
              THEN /\ task'[t].conflicts = task[t].conflicts + 1
                   /\ CASE policy = "server-wins" -> local'[c] = remote.obj
                        [] policy = "client-wins" -> local'[c] = local[c]
                        [] policy = "lww" ->
                             local'[c] = IF local[c].updatedAt > remote.obj.updatedAt
                                           THEN local[c] ELSE remote.obj
                        [] OTHER -> local'[c] \in {local[c], remote.obj}
              ELSE /\ task'[t].conflicts = task[t].conflicts
                   /\ local'[c] = remote.obj]_vars

\* Under lww a pull met a pending local change older than the remote record,
\* counted one conflict and wrote the remote value.
LwwRemoteNewer ==
  \E t \in TaskIds, c \in Cells :
    /\ policy = "lww" /\ task[t].conflicts = 1
    /\ local[c] # NoRec /\ local[c] = server[c]
    /\ \E i \in 1..Len(outbox) :
         /\ outbox[i].table = c[1] /\ outbox[i].key = c[2]
         /\ outbox[i].operation # "delete"
         /\ outbox[i].obj.updatedAt < local[c].updatedAt

----------------------------------------------------------------------------
\* A step of call t in the pull phase: a fetch settles or a record is applied.
PullStep(t) ==
  /\ task[t].pc \in {"fetching", "applying"}
  /\ task'[t] # task[t]

\* C11: a pull never removes or modifies an Outbox entry that existed before
\* it: over every step of a pull (a fetch settling, a record being applied)
\* the Outbox keeps all its entries, in place, with the same operation,
\* payload and attempt count, whichever value the step wrote for the key.
PullKeepsOutbox ==
  [][\A t \in TaskIds :
       PullStep(t) =>
         /\ Len(outbox') >= Len(outbox)
         /\ SubSeq(outbox', 1, Len(outbox)) = outbox]_vars

\* A pull has overwritten a key with the server's record while the key's
\* mutation, with another payload, is still pending and unattempted.
PendingSurvivesPull ==
  \E t \in TaskIds : \E i \in 1..Len(outbox) :
    /\ task[t].kind = "pull" /\ task[t].pc = "done"
    /\ task[t].applied >= 1 /\ task[t].conflicts >= 1
    /\ policy = "server-wins"
    /\ outbox[i].id = 1 /\ outbox[i].attempt = 0
    /\ outbox[i].obj # local[<<outbox[i].table, outbox[i].key>>]

\* The requests call t dispatches in a step.
Dispatched(t) ==
  task'[t].inflight \ (IF task[t].pc = "pushing" THEN task[t].inflight ELSE {})

\* Call t issues a fetch in a step.
FetchIssued(t) ==
  /\ task'[t].pc = "fetching"
  /\ task[t].pc # "fetching" \/ task[t].ti # task'[t].ti

\* C12: while a table is in the paused-table set, push sends no Outbox item
\* of that table and pull neither fetches nor applies its records, also when
\* push(), pull(), sync() or syncTable() are called directly.
TablePauseEnforced ==
  [][\A t \in TaskIds :
       /\ \A j \in Dispatched(t) : task'[t].items[j].table \notin pausedTables
       /\ FetchIssued(t) => task'[t].tables[task'[t].ti] \notin pausedTables
       /\ task[t].pc = "applying" /\ task'[t] # task[t] =>
            task[t].tables[task[t].ti] \notin pausedTables]_vars

----------------------------------------------------------------------------
\* C13: when a push fails with a retryable error that carries a retryAfter
\* hint and the item is rescheduled, its nextRetryAt is now + retryAfter.
RetryHintHonoured ==
  [][\A t \in TaskIds :
       PushFailed(t) =>
         LET item == FailedItem(t)
             error == FailedError(t)
         IN /\ error.retryable /\ error.retryAfter > 0
            /\ ~GoesToDeadLetters(item, error)
            /\ InOutbox(outbox', item.id)
            => Entry(outbox', item.id).nextRetryAt = now + error.retryAfter]_vars

----------------------------------------------------------------------------
----------------------------------------------------------------------------
\* push() of call t returns in a step.
PushReturns(t) == task[t].pc = "pushing" /\ task'[t].pc # "pushing"

\* C15: in one push invocation every item selected as pending is attempted
\* exactly once, whatever the outcome of earlier items: an item is dispatched
\* only if it was not dispatched before, a failure while items remain does
\* not end the invocation, and push() returns only when every selected item
\* has been dispatched and has settled as pushed or failed.
FailureDoesNotBlock ==
  [][\A t \in TaskIds :
       /\ \A j \in Dispatched(t) :
            j > (IF task[t].pc = "pushing" THEN task[t].idx ELSE 0)
       /\ task'[t].pc = "pushing" =>
            task'[t].idx = (IF task[t].pc = "pushing" THEN task[t].idx ELSE 0)
                           + Cardinality(Dispatched(t))
       /\ PushFailed(t) /\ task[t].idx < Len(task[t].items) =>
            task'[t].pc = "pushing" /\ task'[t].items = task[t].items
       /\ PushReturns(t) =>
            /\ task[t].idx = Len(task[t].items)
            /\ task'[t].inflight = {}
            /\ task'[t].pushed + task'[t].failed = Len(task[t].items)]_vars

\* The third item of a queue, in its second batch, is in flight after an item
\* of the first batch has failed.
SentAfterFailure ==
  \E t \in TaskIds :
    /\ task[t].pc = "pushing" /\ Len(task[t].items) = 3
    /\ task[t].inflight = {3} /\ task[t].failed >= 1

----------------------------------------------------------------------------
\* A request of call t settles as sent in a step.
PushSucceeded(t) == task'[t].pushed = task[t].pushed + 1

\* The item whose request settles in a step of call t.
SettledItem(t) ==
  task[t].items[CHOOSE j \in task[t].inflight : j \notin task'[t].inflight]

\* C16: push() returns success = true exactly if no item failed in the
\* invocation; an item whose failure is rescheduled is counted in failed and
\* is in the Outbox afterwards; pushed counts the items the call removed
\* from the Outbox after a successful send.
PushResultAccounting ==
  [][\A t \in TaskIds :
       /\ PushReturns(t) =>
            (PushSuccess(task'[t]) <=> Len(task'[t].pushErrors) = 0)
       /\ PushFailed(t) /\ ~GoesToDeadLetters(FailedItem(t), FailedError(t)) =>
            InOutbox(outbox', FailedItem(t).id)
       /\ PushSucceeded(t) =>
            /\ InOutbox(outbox, SettledItem(t).id)
            /\ ~InOutbox(outbox', SettledItem(t).id)]_vars

----------------------------------------------------------------------------
\* The fetch of call t settles in a step, and it settles as failed.
FetchSettles(t) == task[t].pc = "fetching" /\ task'[t] # task[t]
FetchFails(t) == FetchSettles(t) /\ task'[t].errors = task[t].errors + 1

\* pull() of call t returns in a step.
PullReturns(t) ==
  task[t].pc \in {"fetching", "applying"} /\ task'[t].pc = "done"

\* C17: when the fetch for one table fails during pull(), the error is
\* recorded and success is false, nothing of that table is applied, and the
\* call goes on to fetch the next table with a pull route: tables are fetched
\* one after the other in order and pull() returns only after the last one.
PullErrorsPerTable ==
  [][\A t \in TaskIds :
       /\ FetchFails(t) =>
            /\ ~PullSuccess(task'[t])
            /\ task'[t].applied = task[t].applied
            /\ UNCHANGED local
            /\ task[t].ti < Len(task[t].tables) =>
                 /\ task'[t].pc = "fetching"
                 /\ task'[t].tables = task[t].tables
                 /\ task'[t].ti = task[t].ti + 1
       /\ FetchIssued(t) =>
            task'[t].ti = (IF task[t].pc \in {"fetching", "applying"}
                             THEN task[t].ti ELSE 0) + 1
       /\ PullReturns(t) =>
            /\ task[t].ti = Len(task[t].tables)
            /\ PullSuccess(task'[t]) <=> task'[t].errors = 0]_vars

\* A pull() over both tables has returned: the fetch of the first table
\* failed and its server record is not in the local store, while the second
\* table's record was fetched and applied.
SecondTableApplied ==
  \E t \in TaskIds : \E k \in Keys :
    /\ task[t].kind = "pull" /\ task[t].pc = "done"
    /\ task[t].errors = 1 /\ task[t].applied = 1
    /\ server[<<routes[1], k>>] # NoRec /\ local[<<routes[1], k>>] = NoRec
    /\ server[<<routes[2], k>>] # NoRec
    /\ local[<<routes[2], k>>] = server[<<routes[2], k>>]

----------------------------------------------------------------------------
\* The table whose fetch call t awaits.
FetchedTable(t) == task[t].tables[task[t].ti]

\* C18: pull invokes a table's completion callback exactly once after each
\* successful fetch of the table, the callback saving the latest revision of
\* a response that has records, and never otherwise; when the fetch of a
\* table fails no checkpoint changes.
CheckpointOnSuccessfulFetch ==
  [][\A t \in TaskIds :
       /\ FetchSettles(t) /\ ~FetchFails(t) =>
            /\ task'[t].completed = task[t].completed + 1
            /\ \A tb \in Tables \ {FetchedTable(t)} : checkpoint'[tb] = checkpoint[tb]
            /\ LET got == UpdatedAfter(Fetched(server, FetchedTable(t)),
                                       checkpoint[FetchedTable(t)])
               IN checkpoint'[FetchedTable(t)] =
                    IF got = <<>> THEN checkpoint[FetchedTable(t)] ELSE Latest(got)
       /\ FetchFails(t) =>
            /\ task'[t].completed = task[t].completed
            /\ UNCHANGED checkpoint
       /\ ~FetchSettles(t) /\ task'[t].pc # "idle" /\ task[t].pc # "idle" =>
            task'[t].completed = task[t].completed
       /\ (\A t2 \in TaskIds : ~FetchSettles(t2)) => UNCHANGED checkpoint]_vars

\* A pull() over both tables has returned: the first table's fetch failed and
\* the table has no checkpoint although the server has a record of it; the
\* second table's fetch succeeded, its callback ran once and its checkpoint
\* is the revision of the record fetched.
CheckpointOnlyForFetched ==
  \E t \in TaskIds : \E k \in Keys :
    /\ task[t].kind = "pull" /\ task[t].pc = "done"
    /\ task[t].errors = 1 /\ task[t].completed = 1
    /\ server[<<routes[1], k>>] # NoRec /\ checkpoint[routes[1]] = NoTime
    /\ server[<<routes[2], k>>] # NoRec
    /\ checkpoint[routes[2]] = server[<<routes[2], k>>].updatedAt

----------------------------------------------------------------------------
\* C19: a sync() call is rejected exactly when the engine is offline, paused
\* or has a cycle in progress, with the error of the first of these guards
\* that fails; the rejected call starts no push and no pull, emits no
\* sync-start event, changes no store and leaves the syncing flag and every
\* other call as they were; an admitted call emits sync-start and sets the
\* flag.
SyncFailsFast ==
  [][\A t \in TaskIds :
       SyncCalled(t) =>
         LET blocked == ~onlineStatus' \/ isPausedFlag' \/ isSyncingFlag
         IN /\ blocked <=> task'[t].pc = "rejected"
            /\ blocked =>
                 /\ task'[t].err = RejectionWhileActive(onlineStatus', isPausedFlag')
                 /\ task'[t].events = <<>>
                 /\ task'[t].items = <<>> /\ task'[t].inflight = {}
                 /\ task'[t].tables = <<>> /\ task'[t].ti = 0
                 /\ isSyncingFlag' = isSyncingFlag
                 /\ UNCHANGED <<storeVars, checkpoint>>
                 /\ \A t2 \in TaskIds \ {t} : task'[t2] = task[t2]
            /\ ~blocked =>
                 /\ task'[t].events = <<"sync-start">>
                 /\ isSyncingFlag']_vars

\* A sync() call stands rejected as offline while the cycle that was running
\* when the engine went offline still holds the syncing flag.
RejectedOfflineDuringCycle ==
  \E t \in TaskIds :
    /\ task[t].pc = "rejected" /\ task[t].err = "Cannot sync while offline"
    /\ task[t].events = <<>>
    /\ ActiveCycles # {} /\ isSyncingFlag /\ ~onlineStatus

----------------------------------------------------------------------------
\* start() call c is made, and start() call c runs on after its election.
StartCalled(c) == startPc[c] = "idle" /\ startPc'[c] # "idle"
StartRunsOn(c) == startPc[c] = "electing" /\ startPc'[c] # "electing"

\* C20: start() on a running engine returns at once and changes nothing; on
\* a stopped engine it runs the election and then leaves the engine running
\* with change tracking attached to every configured table, whether elected
\* or not; elected, it arms the periodic timer and makes exactly one sync()
\* call, returning normally exactly if that call was admitted as a cycle;
\* not elected, it makes no sync() call and arms no timer.
StartContract ==
  [][\A c \in StartIds :
       /\ StartCalled(c) /\ isRunning[Eng] =>
            /\ startPc'[c] = "done"
            /\ UNCHANGED <<now, electVars, isRunning, syncInterval, isPausedFlag,
                           isSyncingFlag, onlineStatus, subs, hooks, pausedTables,
                           checkpoint, storeVars, task>>
       /\ StartCalled(c) /\ ~isRunning[Eng] =>
            /\ startPc'[c] = "electing"
            /\ UNCHANGED <<isRunning, syncInterval, subs, hooks, storeVars, task>>
       /\ StartRunsOn(c) =>
            /\ isRunning'[Eng]
            /\ \A tb \in GetSyncedTables : subs'[tb] >= 1 /\ hooks'[tb]
            /\ isLeaderFlag'[Eng] =>
                 /\ syncInterval'[Eng]
                 /\ Cardinality({t \in TaskIds : SyncCalled(t)}) = 1
                 /\ startPc'[c] = "done" <=>
                      \E t \in TaskIds : SyncCalled(t) /\ t \in ActiveCycles'
            /\ ~isLeaderFlag'[Eng] =>
                 /\ startPc'[c] = "done"
                 /\ syncInterval'[Eng] = syncInterval[Eng]
                 /\ UNCHANGED <<task, isSyncingFlag>>]_vars

\* A start() on the stopped engine has returned with the engine running as
\* leader, the timer armed, tracking attached once and its sync cycle
\* fetching; a second start(), made on the running engine, has returned
\* without attaching tracking again.
StartedAsLeader ==
  /\ startPc[1] = "done" /\ startPc[2] = "done"
  /\ isRunning[Eng] /\ isLeaderFlag[Eng] /\ syncInterval[Eng]
  /\ \A tb \in GetSyncedTables : subs[tb] = 1 /\ hooks[tb]
  /\ \E t \in TaskIds :
       /\ task[t].kind = "sync" /\ task[t].pc = "fetching"
       /\ task[t].events = <<"sync-start">>

----------------------------------------------------------------------------
\* C21: once stop() has been called the engine is not running, its periodic
\* timer is not armed, no change-tracking hook is attached, the instance is
\* not leader and has no heartbeat timer, whatever timers fire and messages
\* arrive afterwards; stop() itself broadcasts nothing, and the instance
\* broadcasts nothing after it.
StopIsFinal ==
  [][/\ closed'[Eng] =>
          /\ ~isRunning'[Eng] /\ ~syncInterval'[Eng]
          /\ \A tb \in Tables : subs'[tb] = 0 /\ ~hooks'[tb]
          /\ ~isLeaderFlag'[Eng] /\ ~heartbeatInterval'[Eng]
          /\ \A p \in Pairs : p[1] = Eng => Len(chan'[p]) <= Len(chan[p])
     /\ closed[Eng] => Len(outbox') <= Len(outbox)]_vars

----------------------------------------------------------------------------
\* C22: while the engine is paused no sync cycle is admitted, so none driven
\* by the timer; pause() cancels the timer and resume() arms it only if the
\* engine is running and leader; neither changes the tracking hooks, the
\* leader flag or the running flag, and a local mutation of a tracked table
\* made while paused is added to the Outbox.
PauseResumeFrame ==
  [][/\ \A t \in TaskIds :
          SyncCalled(t) /\ isPausedFlag' => task'[t].pc = "rejected"
     /\ ~isPausedFlag /\ isPausedFlag' =>
          /\ ~syncInterval'[Eng]
          /\ UNCHANGED <<subs, hooks, isLeaderFlag, isRunning, storeVars, task>>
     /\ isPausedFlag /\ ~isPausedFlag' =>
          /\ UNCHANGED <<subs, hooks, isLeaderFlag, isRunning, storeVars>>
          /\ syncInterval'[Eng] <=>
               syncInterval[Eng] \/ (isRunning[Eng] /\ isLeaderFlag[Eng])
          /\ (\E t \in TaskIds : SyncCalled(t)) <=>
               isRunning[Eng] /\ isLeaderFlag[Eng]
     /\ isPausedFlag /\ isRunning[Eng] /\ LocalMutation =>
          GetDepth(outbox') > GetDepth(outbox)]_vars

\* The running leader is paused with its timer cancelled: a sync() call
\* stands rejected as paused while a mutation waits in the Outbox.
PausedWithPending ==
  /\ isPausedFlag /\ isRunning[Eng] /\ isLeaderFlag[Eng] /\ ~syncInterval[Eng]
  /\ GetDepth(outbox) >= 1
  /\ \E t \in TaskIds : task[t].pc = "rejected" /\ task[t].err = "Sync is paused"

----------------------------------------------------------------------------
\* C23: after stop() has returned, a sync cycle that was in progress
\* dispatches no new push request and issues no new pull fetch; the requests
\* in flight may settle.
NoDispatchAfterStop ==
  [][\A t \in TaskIds :
       closed[Eng] /\ task[t].kind = "sync" /\ task[t].pc # "idle" =>
         /\ Dispatched(t) = {}
         /\ ~FetchIssued(t)]_vars

----------------------------------------------------------------------------
\* Instance p[2] handles the oldest message from p[1] in a step.
Handles(p) == Len(chan'[p]) < Len(chan[p]) /\ ~closed[p[2]]

MessageTypes == {"election", "election-response", "leader", "heartbeat"}

\* C24: an instance that handles a leader or heartbeat message carrying
\* another instance's identifier has its leader flag false right after, and
\* no message carrying the receiver's own identifier makes it step down.
StepDownOnAnnouncement ==
  [][/\ \A p \in Pairs :
          Handles(p) /\ Head(chan[p]).type \in {"leader", "heartbeat"}
            /\ Head(chan[p]).tabId # p[2]
          => ~isLeaderFlag'[p[2]]
     /\ \A r \in Inst, type \in MessageTypes, ts \in 0..MaxTime :
          ~StepsDown(r, Msg(type, r, ts))]_vars

\* Every message is delivered; an instance that declared itself leader at
\* the end of its election is no longer leader, the other one having sent a
\* heartbeat.
SteppedDownOnHeartbeat ==
  \E i \in Inst : \E j \in Inst \ {i} :
    /\ elections[i] > 0 /\ settleTimers[i] = 0 /\ ~isLeaderFlag[i]
    /\ heartbeats[j] > 0 /\ isLeaderFlag[j]
    /\ \A p \in Pairs : chan[p] = <<>>

----------------------------------------------------------------------------
\* The settle window of instance i ends in a step.
WindowEnds(i) == settleTimers'[i] < settleTimers[i]

\* C25: a candidate that during its settle window handled an
\* election-response of another instance with a timestamp earlier than its
\* own election timestamp does not declare itself leader at the end of the
\* window: its flag is false and it broadcasts nothing.
CandidateRule ==
  [][\A i \in Inst :
       WindowEnds(i) /\ observed[i] =>
         /\ ~isLeaderFlag'[i]
         /\ \A p \in Pairs : p[1] = i => chan'[p] = chan[p]]_vars

----------------------------------------------------------------------------
\* C26: on every instance the periodic sync timer is armed only while the
\* instance is running and its leader flag is true.
TimerOnlyOnLeader ==
  \A i \in Inst : syncInterval[i] => isRunning[i] /\ isLeaderFlag[i]

\* C27: an emit invokes every handler in the event's Set exactly once, in
\* registration order, whichever of them throw, and no exception reaches
\* the emitter.
EventDelivery ==
  [][\A e \in EventNames, throwing \in SUBSET Handlers :
       Emit(e, throwing) =>
         /\ delivered'.invoked = eventHandlers[e]
         /\ \A h \in Handlers :
              Cardinality({i \in 1..Len(delivered'.invoked) : delivered'.invoked[i] = h})
                = IF h \in Range(eventHandlers[e]) THEN 1 ELSE 0
         /\ ~delivered'.threw]_vars

\* The first of three handlers threw, its error was logged, and the two
\* registered after it were invoked all the same.
DeliveredPastThrowing ==
  /\ delivered.event = "sync-start"
  /\ delivered.invoked = <<2, 3, 1>>
  /\ delivered.logged = <<2>>
  /\ eventHandlers["sync-start"] = <<2, 3, 1>>
  /\ eventHandlers["conflict"] = <<>>

\* C28: however often tracking was registered for a table, a local mutation
\* of it adds exactly one Outbox entry while a hook is attached, and none
\* once stopTracking() has detached the hooks.
TrackingIdempotent ==
  [][\A tb \in Tables :
       LocalMutation /\ (\E k \in Keys : local'[<<tb, k>>] # local[<<tb, k>>]) =>
         Len(outbox') = Len(outbox) + (IF hooks[tb] THEN 1 ELSE 0)]_vars

\* A step in which the custom resolver throws for a fetched record of call t.
ResolverThrows(t) == task'[t].applyFailed = task[t].applyFailed + 1

\* C29: when the custom resolver throws for a fetched record, nothing is
\* written for the record: the local table is unchanged, the record is not
\* counted as applied, and the Outbox is untouched.
ResolverFailureNotDefaulted ==
  [][\A t \in TaskIds :
       ResolverThrows(t) =>
         /\ local' = local
         /\ task'[t].applied = task[t].applied
         /\ outbox' = outbox]_vars

\* A pull under the custom policy is over: the resolver threw for its one
\* fetched record, nothing was applied, and the local record is neither
\* missing nor the server's.
ResolverThrewKeptLocal ==
  \E t \in TaskIds, c \in Cells :
    /\ policy = "custom" /\ task[t].pc = "done"
    /\ task[t].applyFailed = 1 /\ task[t].applied = 0 /\ task[t].conflicts = 1
    /\ local[c] # NoRec /\ server[c] # NoRec /\ local[c] # server[c]

\* C30: resolve(conflict) returns remote under server-wins, local under
\* client-wins, under lww the version with the larger timestamp and remote
\* on a tie (an undefined timestamp counting as 0), under custom the
\* resolver's value; under server-wins and client-wins a repeated call with
\* the same local and remote returns the same result.
ResolutionPolicies ==
  [][resolution' # resolution =>
       LET r == resolution'
           c == r.conflict
       IN /\ r.policy = "server-wins" => r.result = c.remote
          /\ r.policy = "client-wins" => r.result = c.local
          /\ r.policy = "lww" =>
               r.result = IF c.localTimestamp > c.remoteTimestamp
                            THEN c.local ELSE c.remote
          /\ r.policy = "custom" => r.result = r.custom
          /\ /\ r.policy \in {"server-wins", "client-wins"}
             /\ resolution.policy = r.policy
             /\ resolution.conflict.local = c.local
             /\ resolution.conflict.remote = c.remote
             => r.result = resolution.result]_vars

\* Under lww, two different versions with the same timestamp were resolved
\* to the remote one.
LwwTieRemote ==
  /\ resolution.policy = "lww"
  /\ resolution.conflict.localTimestamp = 2
  /\ resolution.conflict.remoteTimestamp = 2
  /\ resolution.conflict.local # resolution.conflict.remote
  /\ resolution.result = resolution.conflict.remote

----------------------------------------------------------------------------
\* C31: detectConflict(local, remote) is false without a local copy;
\* otherwise, when both carry a version, true iff the versions differ;
\* otherwise, when both carry updatedAt, true iff the timestamps differ;
\* otherwise true.
ConflictDetection ==
  detection # <<>> =>
    LET l == detection.local
        r == detection.remote
    IN detection.result =
         IF l = NoRec THEN FALSE
         ELSE IF l.version # NoVersion /\ r.version # NoVersion
           THEN l.version # r.version
         ELSE IF l.updatedAt # Undefined /\ r.updatedAt # Undefined
           THEN l.updatedAt # r.updatedAt
         ELSE TRUE

\* C32: for every attempt number n and jitter draw the delay lies between
\* 0.8 and 1.2 times min(1000 * 2^n, 60000), and so never exceeds 1.2 times
\* the cap.
BackoffBound ==
  backoff # <<>> =>
    LET m == Min(BackoffBase * Pow2(backoff.attempt), BackoffCap)
    IN /\ 4 * m <= 5 * backoff.delay
       /\ 5 * backoff.delay <= 6 * m
       /\ 5 * backoff.delay <= 6 * BackoffCap

\* An attempt number past the cap with the largest jitter: the delay is
\* above the cap.
BackoffAboveCap ==
  /\ backoff # <<>>
  /\ BackoffBase * Pow2(backoff.attempt) > BackoffCap
  /\ backoff.delay > BackoffCap

\* start() has not been called on the engine.
NotStarted == \A c \in StartIds : startPc[c] = "idle"

\* C33: until start() is called the engine is stopped: not running, not
\* paused, not syncing, not leader, no timer armed, no heartbeat, no hook
\* attached and no sync cycle in progress.
InitiallyStopped ==
  NotStarted =>
    /\ ~isRunning[Eng] /\ ~isPausedFlag /\ ~isSyncingFlag
    /\ ~isLeaderFlag[Eng] /\ ~syncInterval[Eng] /\ ~heartbeatInterval[Eng]
    /\ \A tb \in Tables : ~hooks[tb]
    /\ \A t \in TaskIds : task[t] = IdleTask
    /\ outbox = <<>>

\* Before start(): the other instance has become leader and the engine has
\* handled its announcement, the window is back online after being offline,
\* and the application has written a record.
StoppedAmidEvents ==
  /\ NotStarted
  /\ \E i \in Inst : i # Eng /\ isLeaderFlag[i] /\ chan[<<i, Eng>>] = <<>>
  /\ onlineStatus /\ now > 0
  /\ \E c \in Cells : local[c] # NoRec

\* C34: a starting push selects exactly the Outbox items whose nextRetryAt is
\* unset or not after the current time, and no push sends an item whose
\* Outbox entry is scheduled for a later time.
PendingSelection ==
  [][\A t \in TaskIds :
       /\ task[t].pc = "idle" /\ task'[t].pc = "pushing" =>
            task'[t].items =
              SelectSeq(outbox, LAMBDA it :
                          /\ it.nextRetryAt = NoTime \/ it.nextRetryAt <= now
                          /\ task'[t].tbl = NoTable \/ it.table = task'[t].tbl)
       /\ \A j \in Dispatched(t) :
            InOutbox(outbox, task'[t].items[j].id) =>
              Entry(outbox, task'[t].items[j].id).nextRetryAt <= now]_vars

\* C35: every resolve(conflict), under every policy, emits exactly one
\* 'conflict' event carrying the conflict, before the strategy or the custom
\* resolver runs, and delivers it to the handlers of 'conflict'.
ConflictEventFirst ==
  [][resolution' # resolution =>
       LET r == resolution'
       IN /\ Len(SelectSeq(r.steps, LAMBDA st : st = "emit")) = 1
          /\ r.steps[1] = "emit"
          /\ r.steps[Len(r.steps)] \in {"onConflict", "strategy"}
          /\ delivered'.event = "conflict" /\ delivered'.data = r.conflict
          /\ delivered'.at = 1
          /\ delivered'.invoked = eventHandlers["conflict"]]_vars

\* Under the custom policy a handler of 'conflict' threw and the resolver's
\* value, which is not the remote version, was returned all the same.
ConflictHandlerThrew ==
  /\ resolution.policy = "custom"
  /\ resolution.steps = <<"emit", "onConflict">>
  /\ delivered.event = "conflict" /\ delivered.logged = <<1>>
  /\ delivered.invoked = <<2, 1>>
  /\ resolution.result = resolution.custom
  /\ resolution.result # resolution.conflict.remote

\* C36: applying a fetched record to a tracked table adds no Outbox entry:
\* the Outbox depth is the same after every apply step of a pull.
NoEchoOfPulledData ==
  [][\A t \in TaskIds :
       task[t].pc = "applying" /\ task'[t] # task[t] =>
         GetDepth(outbox') = GetDepth(outbox)]_vars

\* C37: when push invocations overlap, no invocation sends an Outbox item
\* that another invocation still in progress has already sent.
OverlappingPushesDisjoint ==
  [][\A t \in TaskIds : \A j \in Dispatched(t) :
       \A t2 \in TaskIds \ {t} :
         task[t2].pc = "pushing" =>
           \A k \in 1..task[t2].idx :
             task[t2].items[k].id # task'[t].items[j].id]_vars

\* C38: the checkpoint never runs ahead of the applied data: a fetched
\* record whose apply failed is not covered by its table's checkpoint, so a
\* later pull fetches it again.
CheckpointBehindFailedApply ==
  [][\A t \in TaskIds :
       ResolverThrows(t) =>
         checkpoint'[task[t].tables[task[t].ti]] < Head(task[t].fetched).obj.updatedAt]_vars

\* C39: when stop() was called while a start() was waiting for the settle
\* window, then once the window's timer has fired the engine is stopped: not
\* running, no hook attached, no timer armed, not leader, no sync cycle
\* started.
StopWinsOverStart ==
  \A c \in StartIds :
    closed[Eng] /\ startPc[c] = "electing" /\ settleTimers[Eng] = 0 =>
      /\ ~isRunning[Eng] /\ ~syncInterval[Eng]
      /\ \A tb \in Tables : ~hooks[tb]
      /\ ~isLeaderFlag[Eng]
      /\ \A t \in TaskIds : task[t].kind # "sync"

\* C40: the retry budget is kept: no Outbox entry has an attempt count
\* above maxRetries, and an item is stored in the Dead-Letter Store with at
\* most maxRetries original attempts.
RetryBudgetKept ==
  /\ \A i \in 1..Len(outbox) : outbox[i].attempt <= GetMaxRetries
  /\ \A d \in 1..Len(deadLetters) : deadLetters[d].originalAttempts <= GetMaxRetries

====
